---- MODULE Spec2Model ----
(***************************************************************************)
(* Region aggregates of the BP Statistical Review garden step              *)
(* (etl/steps/data/garden/bp/2022-07-14/bp_statistical_review.py).         *)
(*                                                                         *)
(* A data frame is a sequence of rows; a row is a record with the index    *)
(* columns country, year, country_code and the function vals from the      *)
(* other columns to cells.  A cell is NaN (the empty sequence) or <<v>>.   *)
(* An optional argument is None (the empty sequence) or <<value>>.         *)
(* A column name is the sequence of its parts, so that the test            *)
(* '"(zero filled)" in column' and column.replace(" (zero filled)", "")    *)
(* are computed on the name.                                               *)
(***************************************************************************)
EXTENDS Integers, Sequences, FiniteSets, TLC

VARIABLES pc, data, known_overlaps, ignore_zeros, aggregates,
          removed, removed_twice, detected, aggregated, amended,
          regions, region_codes, bp_table, table, table_old, combined_table, dataset,
          error,
          max_workers, chart_ids, futures, open_sessions, session_uses, finished,
          chart_diffs, outcome,
          input, output

vars == <<pc, data, known_overlaps, ignore_zeros, aggregates,
          removed, removed_twice, detected, aggregated, amended,
          regions, region_codes, bp_table, table, table_old, combined_table, dataset,
          error,
          max_workers, chart_ids, futures, open_sessions, session_uses, finished,
          chart_diffs, outcome,
          input, output>>

\* The argument and the result of a function that is called on its own.
call_vars == <<input, output>>

\* The variables of the chart diff app.
chart_vars == <<max_workers, chart_ids, futures, open_sessions, session_uses, finished,
                chart_diffs, outcome>>

NaN == <<>>
None == <<>>
Some(x) == <<x>>

(***************************************************************************)
(* Module constants of bp_statistical_review.py                            *)
(***************************************************************************)
REGIONS_TO_ADD ==
    << [region |-> "North America", country_code |-> "OWID_NAM"],
       [region |-> "South America", country_code |-> "OWID_SAM"],
       [region |-> "Europe", country_code |-> "OWID_EUR"],
       [region |-> "Africa", country_code |-> "OWID_AFR"],
       [region |-> "Asia", country_code |-> "OWID_ASI"],
       [region |-> "Oceania", country_code |-> "OWID_OCE"],
       [region |-> "Low-income countries", country_code |-> "OWID_LIC"],
       [region |-> "Upper-middle-income countries", country_code |-> "OWID_UMC"],
       [region |-> "Lower-middle-income countries", country_code |-> "OWID_LMC"],
       [region |-> "High-income countries", country_code |-> "OWID_HIC"] >>

HISTORIC_TO_CURRENT_REGION ==
    << [region |-> "Netherlands Antilles",
        continent |-> "North America",
        income_group |-> "High-income countries",
        members |-> <<"Aruba", "Curacao", "Sint Maarten (Dutch part)">>],
       [region |-> "USSR",
        continent |-> "Europe",
        income_group |-> "Upper-middle-income countries",
        members |-> <<"Lithuania", "Estonia", "Latvia", "Moldova", "Belarus",
                      "Russia", "Ukraine", "Georgia", "Armenia", "Azerbaijan",
                      "Turkmenistan", "Kazakhstan", "Kyrgyzstan", "Uzbekistan",
                      "Tajikistan">>] >>

ZERO_FILLED == " (zero filled)"

\* Columns of the data other than the index columns (a part of BP's columns).
GasReserves == <<"Gas - Proved reserves">>
CoalTWh == <<"Coal Consumption - TWh">>
CoalTWhZeroFilled == <<"Coal Consumption - TWh", ZERO_FILLED>>
BiofuelsTWh == <<"Biofuels Consumption - TWh - Total">>
BiofuelsTWhZeroFilled == <<"Biofuels Consumption - TWh - Total", ZERO_FILLED>>

Columns == <<GasReserves, CoalTWh, CoalTWhZeroFilled, BiofuelsTWh, BiofuelsTWhZeroFilled>>

OVERLAPPING_DATA_TO_REMOVE_IN_AGGREGATES ==
    << [region |-> "USSR",
        member |-> "Russia",
        entity_to_make_nan |-> "region",
        years |-> <<1991, 1992, 1993, 1994, 1995, 1996>>,
        variable |-> GasReserves] >>

ADDITIONAL_COUNTRIES_IN_REGIONS ==
    << [region |-> "Africa", countries |-> <<"Other Africa (BP)">>],
       [region |-> "Asia", countries |-> <<"Other Asia Pacific (BP)", "Other CIS (BP)",
                                           "Other Middle East (BP)">>],
       [region |-> "Europe", countries |-> <<"Other Europe (BP)">>],
       [region |-> "North America", countries |-> <<"Other Caribbean (BP)",
                                                    "Other North America (BP)">>],
       [region |-> "South America", countries |-> <<"Other South America (BP)">>],
       [region |-> "Oceania", countries |-> <<>>] >>

\* The columns of AGGREGATES_BY_SUM that the model has.
AGGREGATES_BY_SUM == <<CoalTWh, GasReserves>>

(***************************************************************************)
(* Helpers on sequences and frames                                         *)
(***************************************************************************)
Range(s) == {s[i] : i \in DOMAIN s}

Min(S) == CHOOSE x \in S : \A y \in S : x <= y

\* sorted(set(...)) of a set of integers
RECURSIVE Sorted(_)
Sorted(S) == IF S = {} THEN <<>> ELSE <<Min(S)>> \o Sorted(S \ {Min(S)})

\* df[column] as a set, for the index column country
CountrySet(df) == {df[i].country : i \in DOMAIN df}

\* DataFrame.replace(overlapping_values_to_ignore, np.nan) on one cell
ReplaceByNan(cell, overlapping_values_to_ignore) ==
    IF cell # NaN /\ cell[1] \in overlapping_values_to_ignore THEN NaN ELSE cell

\* Mutant: ignore_zeros is not looked at, no value is ignored.
OverlappingValuesToIgnoreNone(ign) == {}

\* if ignore_zeros: [0] else: []
OverlappingValuesToIgnore(ign) == IF ign THEN {0} ELSE {}

(***************************************************************************)
(* remove_overlapping_data_for_regions_and_members                         *)
(***************************************************************************)
\* The rows of the region and the member with a value of the variable left
\* after replace(...).dropna(subset=variable): their positions in df.
RowsWithData(df, overlap, ign) ==
    {i \in DOMAIN df :
        /\ df[i].country \in {overlap.region, overlap.member}
        /\ ReplaceByNan(df[i].vals[overlap.variable], OverlappingValuesToIgnore(ign)) # NaN}

\* duplicated_rows[duplicated_rows.duplicated(subset="year", keep=False)]
DuplicatedRows(df, overlap, ign) ==
    LET rows == RowsWithData(df, overlap, ign)
    IN {i \in rows : \E j \in rows : j # i /\ df[j].year = df[i].year}

OverlappingYears(df, overlap, ign) ==
    Sorted({df[i].year : i \in DuplicatedRows(df, overlap, ign)})

\* Mutant: no row is made nan.
IndexesToMakeNanNone(df, overlap, ign) == {}

\* Mutant: the member's rows are made nan whatever entity_to_make_nan says.
IndexesToMakeNanMember(df, overlap, ign) ==
    {i \in DuplicatedRows(df, overlap, ign) : df[i].country = overlap.member}

\* Mutant: all rows of the designated entity are made nan.
IndexesToMakeNanAllRows(df, overlap, ign) ==
    {i \in DOMAIN df : df[i].country = overlap[overlap.entity_to_make_nan]}

\* Mutant: only the rows of the declared years are made nan.
IndexesToMakeNanDeclaredYears(df, overlap, ign) ==
    {i \in DuplicatedRows(df, overlap, ign) :
        /\ df[i].country = overlap[overlap.entity_to_make_nan]
        /\ df[i].year \in Range(overlap.years)}

\* duplicated_rows[duplicated_rows["country"] == overlap[overlap["entity_to_make_nan"]]].index
IndexesToMakeNan(df, overlap, ign) ==
    {i \in DuplicatedRows(df, overlap, ign) :
        df[i].country = overlap[overlap.entity_to_make_nan]}

\* df.loc[indexes_to_make_nan, variable] = np.nan
MakeNan(df, indexes, variable) ==
    [i \in DOMAIN df |->
        IF i \in indexes THEN [df[i] EXCEPT !.vals[variable] = NaN] ELSE df[i]]

\* Mutant: an overlap whose years differ from the declared ones is warned of and
\* then skipped.
RemoveStepSkipStale(st, overlaps, i, ign) ==
    LET overlap == overlaps[i]
        df == st.df
    IN IF {overlap.region, overlap.member} \subseteq CountrySet(df)
       THEN LET years == Sorted({df[r].year : r \in DuplicatedRows(df, overlap, ign)})
            IN IF years # overlap.years
               THEN [st EXCEPT !.warnings = @ \cup {[overlap_number |-> i - 1]},
                               !.overlapping_years[i] = Some(years)]
               ELSE [df |-> MakeNan(df, {r \in DuplicatedRows(df, overlap, ign) :
                                df[r].country = overlap[overlap.entity_to_make_nan]},
                                overlap.variable),
                     warnings |-> st.warnings,
                     overlapping_years |-> [st.overlapping_years EXCEPT ![i] = Some(years)]]
       ELSE st

\* One pass of the loop body for known_overlaps[i] (i counts from 1 here, the
\* warning carries the code's index i - 1).
RemoveStep(st, overlaps, i, ign) ==
    LET overlap == overlaps[i]
        df == st.df
    IN IF {overlap.region, overlap.member} \subseteq CountrySet(df)
       THEN LET years == OverlappingYears(df, overlap, ign)
            IN [df |-> MakeNan(df, IndexesToMakeNan(df, overlap, ign), overlap.variable),
                warnings |-> IF years # overlap.years
                             THEN st.warnings \cup {[overlap_number |-> i - 1]}
                             ELSE st.warnings,
                overlapping_years |-> [st.overlapping_years EXCEPT ![i] = Some(years)]]
       ELSE st

RECURSIVE RemoveLoop(_, _, _, _)
RemoveLoop(st, overlaps, i, ign) ==
    IF i > Len(overlaps) THEN st
    ELSE RemoveLoop(RemoveStep(st, overlaps, i, ign), overlaps, i + 1, ign)

\* The function: the returned frame, the warnings it logged, and the list
\* overlapping_years computed for each known overlap (None where the check
\* that region and member are present failed).
remove_overlapping_data_for_regions_and_members(df, known, ign) ==
    IF known # None
    THEN RemoveLoop([df |-> df, warnings |-> {},
                     overlapping_years |-> [i \in DOMAIN known[1] |-> None]],
                    known[1], 1, ign)
    ELSE [df |-> df, warnings |-> {}, overlapping_years |-> <<>>]

(***************************************************************************)
(* detect_overlapping_data_for_regions_and_members                         *)
(***************************************************************************)
CountryCol == <<"country">>
YearCol == <<"year">>
CountryCodeCol == <<"country_code">>

\* index_columns as run passes them to add_region_aggregates
RunIndexColumns == <<CountryCol, YearCol, CountryCodeCol>>

\* The columns of df (index columns included).
FrameColumns(df) ==
    IF df = <<>> THEN {}
    ELSE {CountryCol, YearCol, CountryCodeCol} \cup DOMAIN df[1].vals

\* Columns of df[df["country"] == entity].replace(...).dropna(axis=1, how="all"):
\* those with a value left in some row of the entity.
ColumnsWithData(df, entity, ign) ==
    LET rows == {i \in DOMAIN df : df[i].country = entity}
        ignore == OverlappingValuesToIgnore(ign)
    IN IF rows = {} THEN {}
       ELSE {CountryCol, YearCol}
            \cup {c \in {CountryCodeCol} : \E i \in rows : df[i].country_code # NaN}
            \cup {c \in DOMAIN df[1].vals :
                    \E i \in rows : ReplaceByNan(df[i].vals[c], ignore) # NaN}

\* variables: the common columns with data that are not index columns
CommonVariables(df, region, member, index_columns, ign) ==
    {column \in ColumnsWithData(df, region, ign) \cap ColumnsWithData(df, member, ign) :
        column \notin Range(index_columns)}

\* The year column of entity_df[["year", variable]] after dropna, in row order.
RECURSIVE YearsWithData(_, _, _, _, _)
YearsWithData(df, entity, variable, ign, i) ==
    IF i > Len(df) THEN <<>>
    ELSE (IF /\ df[i].country = entity
             /\ ReplaceByNan(df[i].vals[variable], OverlappingValuesToIgnore(ign)) # NaN
          THEN <<df[i].year>> ELSE <<>>)
         \o YearsWithData(df, entity, variable, ign, i + 1)

\* combined: region rows then member rows; duplicated(subset="year") marks every
\* row whose year occurred earlier in combined.
DetectedYears(df, region, member, variable, ign) ==
    LET combined == YearsWithData(df, region, variable, ign, 1)
                    \o YearsWithData(df, member, variable, ign, 1)
    IN Sorted({combined[k] : k \in {n \in DOMAIN combined :
                                      \E j \in 1..(n - 1) : combined[j] = combined[n]}})

\* Every new_overlap the loops build (overlapping not empty).
NewOverlaps(df, index_columns, regions_and_members, ign) ==
    UNION {UNION {{[region |-> rm.region, member |-> member,
                    years |-> DetectedYears(df, rm.region, member, variable, ign),
                    variable |-> variable] :
                      variable \in {v \in CommonVariables(df, rm.region, member,
                                                         index_columns, ign) :
                                      DetectedYears(df, rm.region, member, v, ign) # <<>>}} :
                  member \in Range(rm.members)} :
           rm \in Range(regions_and_members)}

\* Python values tagged with their type: == between a dict and a set is False.
PyDict(record) == [type |-> "dict", value |-> record]
PySet(elements) == [type |-> "set", value |-> elements]
PyEq(a, b) == a.type = b.type /\ a.value = b.value

\* [{key for key in overlap if key != "entity_to_make_nan"} for overlap in known_overlaps]:
\* a set comprehension over the keys of each overlap.
KnownOverlapsWithoutEntity(overlaps) ==
    [i \in DOMAIN overlaps |-> PySet(DOMAIN overlaps[i] \ {"entity_to_make_nan"})]

\* new_overlap not in _known_overlaps
NotInKnownOverlaps(new_overlap, overlaps) ==
    LET known == KnownOverlapsWithoutEntity(overlaps)
    IN ~ \E i \in DOMAIN known : PyEq(PyDict(new_overlap), known[i])

\* The function returns None; its effect is the set of warnings it logs.
detect_overlapping_data_for_regions_and_members(df, index_columns, regions_and_members, known, ign) ==
    IF known # None
    THEN {w \in NewOverlaps(df, index_columns, regions_and_members, ign) :
            NotInKnownOverlaps(w, known[1])}
    ELSE {}

(***************************************************************************)
(* load_countries_in_regions                                               *)
(***************************************************************************)
\* The mapping tables are the table wb_income_group, a sequence of rows with a
\* country and its income group, and the table of countries and regions, which
\* gives every continent it knows the list of its members.

\* The values of a sequence in the order of their first occurrence.
RECURSIVE Unique(_, _)
Unique(values, seen) ==
    IF values = <<>> THEN <<>>
    ELSE (IF Head(values) \in seen THEN <<>> ELSE <<Head(values)>>)
         \o Unique(Tail(values), seen \cup {Head(values)})

\* load_income_groups: the table of income groups with a row for every
\* historical region.  The test 'historic_region not in income_groups["country"]'
\* looks for the name among the labels of the index, which are numbers after
\* reset_index, so that the row is added also when the table has the region.
load_income_groups(wb_income_group) ==
    wb_income_group
    \o [k \in DOMAIN HISTORIC_TO_CURRENT_REGION |->
           [country |-> HISTORIC_TO_CURRENT_REGION[k].region,
            income_group |-> HISTORIC_TO_CURRENT_REGION[k].income_group]]

\* geo.list_countries_in_region(region, income_groups) of owid.datautils: the
\* members of a continent as the table of countries and regions lists them,
\* the countries of an income group in the order of the table of income
\* groups, and no country for a region that neither table knows.
list_countries_in_region(region, countries_regions, income_groups) ==
    IF region \in DOMAIN countries_regions THEN countries_regions[region]
    ELSE LET rows == SelectSeq(income_groups, LAMBDA row : row.income_group = region)
         IN Unique([k \in DOMAIN rows |-> rows[k].country], {})

RECURSIVE AllAdditional(_)
AllAdditional(k) ==
    IF k > Len(ADDITIONAL_COUNTRIES_IN_REGIONS) THEN <<>>
    ELSE ADDITIONAL_COUNTRIES_IN_REGIONS[k].countries \o AllAdditional(k + 1)

\* Mutant: the additional countries of all regions are added to each region.
AdditionalCountriesOfAllRegions(region) == AllAdditional(1)

\* ADDITIONAL_COUNTRIES_IN_REGIONS[region], nothing for a region it does not have.
AdditionalCountries(region) ==
    LET entries == {i \in DOMAIN ADDITIONAL_COUNTRIES_IN_REGIONS :
                        ADDITIONAL_COUNTRIES_IN_REGIONS[i].region = region}
    IN IF entries = {} THEN <<>>
       ELSE ADDITIONAL_COUNTRIES_IN_REGIONS[CHOOSE i \in entries : TRUE].countries

\* Mutant: the additional countries come before the default list.
AdditionalCountriesFirst(default, region) == AdditionalCountries(region) \o default

\* countries_in_regions[region] + ADDITIONAL_COUNTRIES_IN_REGIONS[region]
WithAdditionalCountries(default, region) == default \o AdditionalCountries(region)

\* load_countries_in_regions, for the mapping tables that the catalog and
\* owid.datautils hold: for every key of REGIONS_TO_ADD the default list of
\* the region, then its additional countries.
load_countries_in_regions(wb_income_group, countries_regions) ==
    LET income_groups == load_income_groups(wb_income_group)
    IN [region \in {REGIONS_TO_ADD[k].region : k \in DOMAIN REGIONS_TO_ADD} |->
           WithAdditionalCountries(
               list_countries_in_region(region, countries_regions, income_groups), region)]

\* The mapping tables of the runs: the income groups of Russia and Ukraine,
\* and the continents with the countries of the data.
WbIncomeGroup ==
    <<[country |-> "Russia", income_group |-> "Upper-middle-income countries"],
      [country |-> "Ukraine", income_group |-> "Lower-middle-income countries"]>>

CountriesRegions ==
    [continent \in {"North America", "South America", "Europe", "Africa", "Asia", "Oceania"} |->
        IF continent = "Europe" THEN <<"Russia", "USSR", "Ukraine">> ELSE <<>>]

\* Mutant: a region that is not a key of REGIONS_TO_ADD has the empty list.
CountriesInRegionsOrEmpty ==
    [region \in {REGIONS_TO_ADD[k].region : k \in DOMAIN REGIONS_TO_ADD}
                \cup {"European Union (27)"} |->
        IF region = "European Union (27)" THEN <<>>
        ELSE load_countries_in_regions(WbIncomeGroup, CountriesRegions)[region]]

\* The dictionary load_countries_in_regions() returns: its keys are the keys of
\* REGIONS_TO_ADD.
countries_in_regions == load_countries_in_regions(WbIncomeGroup, CountriesRegions)

(***************************************************************************)
(* add_region_aggregates                                                   *)
(***************************************************************************)
\* The default of the parameter ignore_zeros of both overlap functions, which
\* add_region_aggregates does not pass.
DefaultIgnoreZeros == TRUE

RECURSIVE SelectRows(_, _, _)
\* df[df[country_column].isin(countries)], rows in their order
SelectRows(df, countries, i) ==
    IF i > Len(df) THEN <<>>
    ELSE (IF df[i].country \in countries THEN <<df[i]>> ELSE <<>>)
         \o SelectRows(df, countries, i + 1)

RECURSIVE SumCells(_, _, _)
\* pandas "sum" of a group: the cells that are NaN are skipped, and the sum of
\* no value is 0.
SumCells(df, rows, column) ==
    IF rows = {} THEN 0
    ELSE LET i == CHOOSE r \in rows : TRUE
             cell == df[i].vals[column]
         IN (IF cell = NaN THEN 0 ELSE cell[1]) + SumCells(df, rows \ {i}, column)

\* One row of the region for a year: groupby(year).agg(aggregations) over the rows of
\* the member countries; a column that is not aggregated is NaN after the concat.
RegionRow(df, region, year, aggregations, countries_in_region, columns) ==
    LET rows == {i \in DOMAIN df :
                    df[i].country \in Range(countries_in_region) /\ df[i].year = year}
    IN [country |-> region, year |-> year, country_code |-> NaN,
        vals |-> [c \in columns |->
                    IF c \in aggregations THEN Some(SumCells(df, rows, c)) ELSE NaN]]

\* geo.add_region_aggregates(df, region, aggregations, countries_in_region,
\* countries_that_must_have_data=[], frac_allowed_nans_per_year=None,
\* num_allowed_nans_per_year=None) of owid.datautils: the rows of the region, one
\* for each year in which a member country has a row, sorted by year.
GeoRegionRows(df, region, aggregations, countries_in_region, columns) ==
    LET years == Sorted({df[i].year : i \in {j \in DOMAIN df :
                                df[j].country \in Range(countries_in_region)}})
    IN [k \in DOMAIN years |->
          RegionRow(df, region, years[k], aggregations, countries_in_region, columns)]

\* The frame it returns: the rows of df that are not rows of the region, then the
\* new rows of the region (it sorts by country and year; the order of the rows of
\* different countries is not modelled).
GeoAddRegionAggregates(df, region, aggregations, countries_in_region, columns) ==
    SelectRows(df, CountrySet(df) \ {region}, 1)
    \o GeoRegionRows(df, region, aggregations, countries_in_region, columns)

\* Mutant: no default when aggregates is None, nothing is aggregated.
AggregationsNoDefault(df_columns, index_columns, aggs) ==
    IF aggs = None THEN {} ELSE Range(aggs[1])

\* aggregates, or every column that is not an index column when None is passed
Aggregations(df_columns, index_columns, aggs) ==
    IF aggs = None
    THEN {column \in df_columns : column \notin Range(index_columns)}
    ELSE Range(aggs[1])

\* The columns of df that are not the index columns country, year, country_code.
ValueColumns(df) == IF df = <<>> THEN {} ELSE DOMAIN df[1].vals

\* Mutant: the detector makes the member's values of the overlaps it finds null in
\* the frame it is given.
RegionStepDetectorNulls(st, region, index_columns, aggregations, known) ==
    LET countries_in_region == countries_in_regions[region]
        data_region == SelectRows(st.data, Range(countries_in_region), 1)
        rem == remove_overlapping_data_for_regions_and_members(
                   data_region, known, DefaultIgnoreZeros)
        det == detect_overlapping_data_for_regions_and_members(
                   rem.df, index_columns, HISTORIC_TO_CURRENT_REGION, known,
                   DefaultIgnoreZeros)
        altered == [i \in DOMAIN rem.df |->
                      [rem.df[i] EXCEPT !.vals =
                          [c \in DOMAIN rem.df[i].vals |->
                              IF \E w \in det : /\ w.member = rem.df[i].country
                                                /\ w.variable = c
                                                /\ rem.df[i].year \in Range(w.years)
                              THEN NaN ELSE rem.df[i].vals[c]]]]
        geo_out == GeoAddRegionAggregates(altered, region, aggregations,
                                          countries_in_region, ValueColumns(st.data))
        region_rows == SelectRows(geo_out, {region}, 1)
    IN [data |-> st.data \o region_rows,
        error |-> st.error,
        log |-> st.log \o
                << [step |-> "remove", region |-> region, df |-> rem.df,
                    warnings |-> rem.warnings],
                   [step |-> "detect", region |-> region, df |-> rem.df,
                    warnings |-> det],
                   [step |-> "aggregate", region |-> region, df |-> region_rows,
                    warnings |-> {}] >>]

\* Mutant: the detector is called before the remover, on the data as selected.
RegionStepDetectFirst(st, region, index_columns, aggregations, known) ==
    LET countries_in_region == countries_in_regions[region]
        data_region == SelectRows(st.data, Range(countries_in_region), 1)
        det == detect_overlapping_data_for_regions_and_members(
                   data_region, index_columns, HISTORIC_TO_CURRENT_REGION, known,
                   DefaultIgnoreZeros)
        rem == remove_overlapping_data_for_regions_and_members(
                   data_region, known, DefaultIgnoreZeros)
        geo_out == GeoAddRegionAggregates(rem.df, region, aggregations,
                                          countries_in_region, ValueColumns(st.data))
        region_rows == SelectRows(geo_out, {region}, 1)
    IN [data |-> st.data \o region_rows,
        error |-> st.error,
        log |-> st.log \o
                << [step |-> "detect", region |-> region, df |-> data_region,
                    warnings |-> det],
                   [step |-> "remove", region |-> region, df |-> rem.df,
                    warnings |-> rem.warnings],
                   [step |-> "aggregate", region |-> region, df |-> region_rows,
                    warnings |-> {}] >>]

\* The body of the loop over regions, for one region: st.data is data, st.log the
\* steps taken with what each step produced, st.error the exception raised.
\* countries_in_regions[region] raises KeyError for a region that is not a key.
RegionStep(st, region, index_columns, aggregations, known) ==
    IF region \notin DOMAIN countries_in_regions
    THEN [st EXCEPT !.error = Some("KeyError")]
    ELSE
    LET countries_in_region == countries_in_regions[region]
        data_region == SelectRows(st.data, Range(countries_in_region), 1)
        rem == remove_overlapping_data_for_regions_and_members(
                   data_region, known, DefaultIgnoreZeros)
        det == detect_overlapping_data_for_regions_and_members(
                   rem.df, index_columns, HISTORIC_TO_CURRENT_REGION, known,
                   DefaultIgnoreZeros)
        geo_out == GeoAddRegionAggregates(rem.df, region, aggregations,
                                          countries_in_region, ValueColumns(st.data))
        region_rows == SelectRows(geo_out, {region}, 1)
    IN [data |-> st.data \o region_rows,
        error |-> st.error,
        log |-> st.log \o
                << [step |-> "remove", region |-> region, df |-> rem.df,
                    warnings |-> rem.warnings],
                   [step |-> "detect", region |-> region, df |-> rem.df,
                    warnings |-> det],
                   [step |-> "aggregate", region |-> region, df |-> region_rows,
                    warnings |-> {}] >>]

RECURSIVE RegionLoop(_, _, _, _, _, _)
RegionLoop(st, regs, i, index_columns, aggregations, known) ==
    IF i > Len(regs) \/ st.error # None THEN st
    ELSE RegionLoop(RegionStep(st, regs[i], index_columns, aggregations, known),
                    regs, i + 1, index_columns, aggregations, known)

\* Position of the region in regions (the last one, as the loop overwrites), 0 if none.
RegionIndex(regs, country) ==
    LET found == {i \in DOMAIN regs : regs[i] = country}
    IN IF found = {} THEN 0 ELSE CHOOSE i \in found : \A j \in found : j <= i

\* Mutant: every region gets the first of the codes.
AddRegionCodesFirstCode(df, regs, codes) ==
    IF codes = None THEN df
    ELSE [i \in DOMAIN df |->
            IF RegionIndex(regs, df[i].country) = 0 THEN df[i]
            ELSE [df[i] EXCEPT !.country_code = Some(codes[1][1])]]

\* data.loc[data[country_column] == region, country_code_column] = region_codes[i]
AddRegionCodes(df, regs, codes) ==
    IF codes = None THEN df
    ELSE [i \in DOMAIN df |->
            IF RegionIndex(regs, df[i].country) = 0 THEN df[i]
            ELSE [df[i] EXCEPT !.country_code =
                      Some(codes[1][RegionIndex(regs, df[i].country)])]]

\* The function: the frame it returns (none when error is an exception), with the
\* steps it took.  The first step is the call of load_countries_in_regions.
add_region_aggregates(df, regs, index_columns, aggs, known, codes) ==
    LET resolve == [step |-> "resolve", region |-> "", df |-> <<>>, warnings |-> {},
                    countries_in_regions |-> countries_in_regions]
        st == RegionLoop([data |-> df, log |-> <<resolve>>, error |-> None], regs, 1,
                         index_columns,
                         Aggregations(FrameColumns(df), index_columns, aggs), known)
    IN IF st.error # None
       THEN [data |-> <<>>, log |-> st.log, error |-> st.error]
       ELSE [data |-> AddRegionCodes(st.data, regs, codes), log |-> st.log,
             error |-> None]

(***************************************************************************)
(* amend_zero_filled_variables_for_region_aggregates                       *)
(***************************************************************************)
\* "(zero filled)" in column
IsZeroFilled(column) == \E k \in DOMAIN column : column[k] = ZERO_FILLED

\* column.replace(" (zero filled)", "")
OriginalVariable(column) == SelectSeq(column, LAMBDA part : part # ZERO_FILLED)

\* Mutant: fillna(0) is left out.
FillNaNot(cell) == cell

\* fillna(0) on one cell
FillNa(cell) == IF cell = NaN THEN Some(0) ELSE cell

amend_zero_filled_variables_for_region_aggregates(df) ==
    LET select_regions == {REGIONS_TO_ADD[k].region : k \in DOMAIN REGIONS_TO_ADD}
    IN [i \in DOMAIN df |->
          IF df[i].country \in select_regions
          THEN [df[i] EXCEPT !.vals =
                   [c \in DOMAIN df[i].vals |->
                       IF IsZeroFilled(c) THEN FillNa(df[i].vals[OriginalVariable(c)])
                       ELSE df[i].vals[c]]]
          ELSE df[i]]

(***************************************************************************)
(* prepare_output_table                                                    *)
(***************************************************************************)
\* The country names of the model in the order Python sorts strings.
CountryOrder ==
    <<"Africa", "Asia", "Europe", "High-income countries", "Low-income countries",
      "Lower-middle-income countries", "North America", "Oceania",
      "Other Africa (BP)", "Russia", "South America", "USSR", "Ukraine",
      "Upper-middle-income countries", "World">>

RECURSIVE SortByYear(_)
\* The rows of one country sorted by year; rows of the same year keep their order.
SortByYear(rows) ==
    IF rows = <<>> THEN <<>>
    ELSE LET m == CHOOSE i \in DOMAIN rows :
                    \A j \in DOMAIN rows :
                        \/ rows[i].year < rows[j].year
                        \/ rows[i].year = rows[j].year /\ i <= j
         IN <<rows[m]>>
            \o SortByYear(SubSeq(rows, 1, m - 1) \o SubSeq(rows, m + 1, Len(rows)))

RECURSIVE SortValues(_, _)
\* sort_values(["country", "year"]), from the k-th country of CountryOrder on.
SortValues(df, k) ==
    IF k > Len(CountryOrder) THEN <<>>
    ELSE SortByYear(SelectSeq(df, LAMBDA row : row.country = CountryOrder[k]))
         \o SortValues(df, k + 1)

\* catalog.utils.underscore_table on the column names of the model.
Underscore(column) ==
    CASE column = GasReserves -> <<"gas__proved_reserves">>
      [] column = CoalTWh -> <<"coal_consumption__twh">>
      [] column = CoalTWhZeroFilled -> <<"coal_consumption__twh__zero_filled">>
      [] column = BiofuelsTWh -> <<"biofuels_consumption__twh__total">>
      [] column = BiofuelsTWhZeroFilled ->
            <<"biofuels_consumption__twh__total__zero_filled">>

\* Mutant: the index is set without verify_integrity.
NoIntegrityCheck(df) == FALSE

\* set_index(["country", "year"], verify_integrity=True) raises ValueError when two
\* rows have the same country and year.
HasDuplicateIndex(df) ==
    \E i, j \in DOMAIN df :
        i < j /\ df[i].country = df[j].country /\ df[i].year = df[j].year

\* The table (rows indexed by country and year, columns country_code and the
\* variables under their underscored names), or the error raised; bp_columns are
\* the columns of bp_table, whose metadata the table gets (bp_table[column] raises
\* KeyError for any other column).  The values of the model are integers: there
\* is no inf to replace.
prepare_output_table(df, bp_columns) ==
    IF HasDuplicateIndex(df)
    THEN [table |-> <<>>, error |-> Some("ValueError")]
    ELSE IF \E column \in ValueColumns(df) : Underscore(column) \notin bp_columns
    THEN [table |-> <<>>, error |-> Some("KeyError")]
    ELSE LET sorted == SortValues(df, 1)
         IN [table |-> [i \in DOMAIN sorted |->
                          [sorted[i] EXCEPT !.vals =
                              [c \in {Underscore(column) : column \in DOMAIN sorted[i].vals}
                                  |-> sorted[i].vals[CHOOSE column \in DOMAIN sorted[i].vals :
                                                        Underscore(column) = c]]]],
             error |-> None]

(***************************************************************************)
(* fill_missing_values_with_previous_version                               *)
(***************************************************************************)
OLD == "_old"

\* table_old[~table_old["country"].isin(list(REGIONS_TO_ADD))]
\* Mutant: the region aggregates of the previous version are kept.
WithRegions(old) == old

WithoutRegions(old) ==
    SelectSeq(old, LAMBDA row :
        row.country \notin {REGIONS_TO_ADD[k].region : k \in DOMAIN REGIONS_TO_ADD})

\* The columns of a table other than country_code.
TableColumns(tb) == IF tb = <<>> THEN {} ELSE DOMAIN tb[1].vals

\* The name pd.merge gives the column of the right table: the suffix "_old"
\* when the left table has a column of that name.
MergedName(column, left_columns) ==
    IF column \in left_columns THEN column \o <<OLD>> ELSE column

\* One row of the merge: the row of the left table with the columns of the
\* matching row of the right table (NaN in all of them when there is none).
MergedRow(row, old_row, left_columns, right_columns) ==
    [row EXCEPT !.vals =
        [c \in left_columns \cup {MergedName(column, left_columns) :
                                     column \in right_columns} |->
            IF c \in left_columns THEN row.vals[c]
            ELSE LET column == CHOOSE x \in right_columns :
                                  MergedName(x, left_columns) = c
                 IN IF old_row = None THEN NaN ELSE old_row[1].vals[column]]]

RECURSIVE MergeLeft(_, _, _)
\* pd.merge(table, table_old, left_index=True, right_index=True, how="left"):
\* for each row of the left table, in order, one row for each row of the right
\* table with the same country and year, or one row when there is none.
MergeLeft(tb, old, i) ==
    IF i > Len(tb) THEN <<>>
    ELSE LET matches == SelectSeq(old, LAMBDA row :
                            row.country = tb[i].country /\ row.year = tb[i].year)
             left_columns == TableColumns(tb)
             right_columns == TableColumns(old)
         IN (IF matches = <<>>
             THEN <<MergedRow(tb[i], None, left_columns, right_columns)>>
             ELSE [k \in DOMAIN matches |->
                     MergedRow(tb[i], Some(matches[k]), left_columns, right_columns)])
            \o MergeLeft(tb, old, i + 1)

\* column.endswith("_old")
EndsWithOld(column) == column # <<>> /\ column[Len(column)] = OLD

\* column_old.replace("_old", "")
WithoutOld(column) == SelectSeq(column, LAMBDA part : part # OLD)

\* Mutant: the value of the previous version replaces the current one.
FillFromOldAlways(cell, old_cell) == IF old_cell = NaN THEN cell ELSE old_cell

\* combined[column].fillna(combined[column_old]) on one cell
FillFromOld(cell, old_cell) == IF cell = NaN THEN old_cell ELSE cell

\* The function: the combined table, or the error raised by the sanity checks.
fill_missing_values_with_previous_version(tb, old) ==
    LET merged == MergeLeft(tb, WithoutRegions(old), 1)
        columns == {c \in TableColumns(merged) : EndsWithOld(c)}
        filled == [i \in DOMAIN merged |->
                     [merged[i] EXCEPT !.vals =
                         [c \in TableColumns(merged) \ columns |->
                             IF \E column_old \in columns : WithoutOld(column_old) = c
                             THEN FillFromOld(merged[i].vals[c],
                                     merged[i].vals[CHOOSE column_old \in columns :
                                                       WithoutOld(column_old) = c])
                             ELSE merged[i].vals[c]]]]
    IN IF \E c \in columns : WithoutOld(c) \notin TableColumns(merged)
       THEN [combined |-> <<>>, error |-> Some("KeyError")]
       ELSE IF Len(filled) # Len(tb) \/ ~(TableColumns(tb) \subseteq TableColumns(filled))
       THEN [combined |-> <<>>, error |-> Some("AssertionError")]
       ELSE [combined |-> filled, error |-> None]

(***************************************************************************)
(* run: the arguments it passes to add_region_aggregates                   *)
(***************************************************************************)
RunRegions == [k \in DOMAIN REGIONS_TO_ADD |-> REGIONS_TO_ADD[k].region]
RunRegionCodes == [k \in DOMAIN REGIONS_TO_ADD |-> REGIONS_TO_ADD[k].country_code]

(***************************************************************************)
(* Input data                                                              *)
(***************************************************************************)
\* Bounds of the input data.
YearsBefore == 1
YearsAfter == 1
MaxVal == 2

KnownYears == OVERLAPPING_DATA_TO_REMOVE_IN_AGGREGATES[1].years
FirstYear == KnownYears[1] - YearsBefore
LastYear == KnownYears[Len(KnownYears)] + YearsAfter
Years == FirstYear..LastYear

\* A row of BP's data: the zero filled columns hold the value, or 0 for none.
ZeroFilledCell(cell) == IF cell = NaN THEN Some(0) ELSE cell

MakeRow(country, code, year, gas, coal, biofuels) ==
    [country |-> country, year |-> year, country_code |-> Some(code),
     vals |-> (GasReserves :> gas) @@ (CoalTWh :> coal)
              @@ (CoalTWhZeroFilled :> ZeroFilledCell(coal))
              @@ (BiofuelsTWh :> biofuels)
              @@ (BiofuelsTWhZeroFilled :> ZeroFilledCell(biofuels))]

\* One cell of one country that differs from the rest of its series, in one of
\* the years.
SpotsIn(years) ==
    {None} \cup
    {Some([country |-> c, year |-> y, cell |-> v]) :
        c \in {"USSR", "Russia"}, y \in years, v \in {NaN, Some(0)}}

GasCell(country, year, value, spot) ==
    IF spot # None /\ spot[1].country = country /\ spot[1].year = year
    THEN spot[1].cell ELSE Some(value)

\* The USSR reports until ussr_end, Russia from russia_start on, Ukraine in every
\* year or in none, the World and Other Africa (BP) in the last year.
InputFrame(ussr_end, russia_start, ussr_gas, spot, ukraine, russia_coal) ==
    [k \in 1..(LastYear - russia_start + 1) |->
        MakeRow("Russia", "RUS", russia_start + k - 1,
                GasCell("Russia", russia_start + k - 1, ussr_gas + 1, spot),
                russia_coal, Some(1))]
    \o [k \in 1..(ussr_end - FirstYear + 1) |->
        MakeRow("USSR", "OWID_USS", FirstYear + k - 1,
                GasCell("USSR", FirstYear + k - 1, ussr_gas, spot), Some(1), NaN)]
    \o (IF ukraine
        THEN [k \in 1..(LastYear - FirstYear + 1) |->
                MakeRow("Ukraine", "UKR", FirstYear + k - 1, Some(1), NaN, NaN)]
        ELSE <<>>)
    \o <<MakeRow("World", "OWID_WRL", LastYear, Some(MaxVal + 2), Some(MaxVal), Some(1)),
         MakeRow("Other Africa (BP)", "OWID_OAF", LastYear, Some(1), NaN, Some(1))>>

InputFramesWith(spots, coals) ==
    {InputFrame(ussr_end, russia_start, ussr_gas, spot, ukraine, russia_coal) :
        ussr_end \in (FirstYear - 1)..LastYear,
        russia_start \in FirstYear..(LastYear + 1),
        ussr_gas \in 1..MaxVal,
        spot \in spots,
        ukraine \in BOOLEAN,
        russia_coal \in coals}

\* The data given to the overlap functions.
InputFrames ==
    InputFramesWith(SpotsIn({KnownYears[1], KnownYears[Len(KnownYears)]}),
                    {NaN, Some(MaxVal)})

\* A row of Europe as the source defines it, in the last year.
EuropeRow == MakeRow("Europe", "BP_EUR", LastYear, Some(MaxVal + 1), Some(1), NaN)

\* The data given to add_region_aggregates, which may hold a row named as a
\* region already.
RunInputFrames ==
    InputFramesWith(SpotsIn({KnownYears[1]}), {Some(MaxVal)})
    \cup {InputFrame(ussr_end, russia_start, 1, None, ukraine, Some(MaxVal)) \o <<EuropeRow>> :
              ussr_end \in (FirstYear - 1)..LastYear,
              russia_start \in FirstYear..(LastYear + 1),
              ukraine \in BOOLEAN}

\* The configured overlap with the other entity designated.
WithEntity(overlaps, entity) ==
    [i \in DOMAIN overlaps |-> [overlaps[i] EXCEPT !.entity_to_make_nan = entity]]

KnownOverlapsInputs ==
    {Some(OVERLAPPING_DATA_TO_REMOVE_IN_AGGREGATES),
     Some(WithEntity(OVERLAPPING_DATA_TO_REMOVE_IN_AGGREGATES, "member"))}

\* The table of the previous version after reset_index, rename and drop (lines
\* 664-668): rows of three countries and of Europe as BP defined it, in three of
\* the years, with a column the current table does not have.
OilReservesOld == <<"oil__proved_reserves">>

OldRow(country, year, gas, coal, biofuels) ==
    [country |-> country, year |-> year, country_code |-> Some("OLD"),
     vals |-> (Underscore(GasReserves) :> gas) @@ (Underscore(CoalTWh) :> coal)
              @@ (Underscore(CoalTWhZeroFilled) :> ZeroFilledCell(coal))
              @@ (Underscore(BiofuelsTWh) :> biofuels)
              @@ (Underscore(BiofuelsTWhZeroFilled) :> ZeroFilledCell(biofuels))
              @@ (OilReservesOld :> Some(1))]

\* The columns of bp_table (line 752): those of the data under their short names,
\* or all of them but one.
BpTables ==
    {{Underscore(Columns[k]) : k \in DOMAIN Columns},
     {Underscore(Columns[k]) : k \in DOMAIN Columns} \ {Underscore(BiofuelsTWhZeroFilled)}}

OldYears == <<FirstYear, KnownYears[1], LastYear>>

OldTable(duplicate, coal) ==
    [k \in 1..(4 * Len(OldYears)) |->
        OldRow(<<"Russia", "USSR", "Ukraine", "Europe">>[((k - 1) \div Len(OldYears)) + 1],
               OldYears[((k - 1) % Len(OldYears)) + 1],
               Some(MaxVal + 3), coal, Some(MaxVal + 4))]
    \o (IF duplicate
        THEN <<OldRow("Russia", LastYear, Some(MaxVal + 5), coal, NaN)>>
        ELSE <<>>)

OldTables == {OldTable(duplicate, coal) : duplicate \in BOOLEAN, coal \in {NaN, Some(MaxVal + 3)}}

Idle == <<>>

\* The chart diff app does not run.
ChartsIdle ==
    /\ max_workers = 0
    /\ chart_ids = <<>>
    /\ futures = <<>>
    /\ open_sessions = {}
    /\ session_uses = {}
    /\ finished = <<>>
    /\ chart_diffs = <<>>
    /\ outcome = <<>>

\* The variables of the steps of run after the zero-fill, and its arguments.
run_rest == <<regions, region_codes, bp_table, table, table_old, combined_table, dataset,
          error>>

(***************************************************************************)
(* Spec: add_region_aggregates and the zero-fill pass, as run calls them   *)
(***************************************************************************)
Init ==
    /\ pc = "start"
    /\ data \in RunInputFrames
    /\ known_overlaps = Some(OVERLAPPING_DATA_TO_REMOVE_IN_AGGREGATES)
    /\ ignore_zeros = DefaultIgnoreZeros
    /\ aggregates \in {None, Some(AGGREGATES_BY_SUM)}
    /\ removed = Idle
    /\ removed_twice = Idle
    /\ detected = Idle
    /\ aggregated = Idle
    /\ amended = Idle
    /\ regions = RunRegions
    /\ region_codes = Some(RunRegionCodes)
    /\ bp_table = None
    /\ table = Idle
    /\ combined_table = Idle
    /\ table_old = Idle
    /\ error = None
    /\ dataset = None
    /\ ChartsIdle
    /\ input = <<>> /\ output = <<>>

AddRegionAggregates ==
    /\ pc = "start"
    /\ aggregated' = add_region_aggregates(data, regions, RunIndexColumns, aggregates,
                                           known_overlaps, region_codes)
    /\ pc' = IF aggregated'.error # None THEN "aborted" ELSE "aggregated"
    /\ error' = aggregated'.error
    /\ UNCHANGED <<data, known_overlaps, ignore_zeros, aggregates, removed,
                   removed_twice, detected, amended, regions, region_codes, table,
                   table_old, combined_table, dataset, bp_table,
                   chart_vars, call_vars>>

AmendZeroFilled ==
    /\ pc = "aggregated"
    /\ amended' = amend_zero_filled_variables_for_region_aggregates(aggregated.data)
    /\ pc' = "amended"
    /\ UNCHANGED <<data, known_overlaps, ignore_zeros, aggregates, removed,
                   removed_twice, detected, aggregated, run_rest,
                   chart_vars, call_vars>>

\* table = prepare_output_table(df, bp_table), with the bp_table that
\* catalog.find_one loaded (line 752)
PrepareOutputTable ==
    /\ pc = "amended"
    /\ \E bp_columns \in BpTables :
          LET result == prepare_output_table(amended, bp_columns)
          IN /\ bp_table' = Some(bp_columns)
             /\ table' = result.table
             /\ error' = result.error
             /\ pc' = IF result.error # None THEN "aborted" ELSE "prepared"
    /\ UNCHANGED <<data, known_overlaps, ignore_zeros, aggregates, removed,
                   removed_twice, detected, aggregated, amended, regions,
                   region_codes, table_old, combined_table, dataset,
                   chart_vars, call_vars>>

\* combined = fill_missing_values_with_previous_version(table, bp_table_old); the
\* table of the previous version is what catalog.find_one loaded (line 765).
FillMissingValues ==
    /\ pc = "prepared"
    /\ \E old \in OldTables :
          LET result == fill_missing_values_with_previous_version(table, old)
          IN /\ table_old' = old
             /\ combined_table' = result.combined
             /\ error' = result.error
             /\ pc' = IF result.error # None THEN "aborted" ELSE "filled"
    /\ UNCHANGED <<data, known_overlaps, ignore_zeros, aggregates, removed,
                   removed_twice, detected, aggregated, amended, regions,
                   region_codes, table, dataset, bp_table,
                   chart_vars, call_vars>>

\* The variables of run that the writes of the dataset leave alone.
written_rest == <<data, known_overlaps, ignore_zeros, aggregates, removed, removed_twice,
                  detected, aggregated, amended, regions, region_codes, table,
                  table_old, combined_table, bp_table>>

\* dataset = catalog.Dataset.create_empty(dest_dir): the dataset exists at the
\* destination, without tables.
CreateEmpty ==
    /\ pc = "filled"
    /\ dataset' = Some([tables |-> <<>>])
    /\ pc' = "created"
    /\ UNCHANGED <<written_rest, error, chart_vars, call_vars>>

\* dataset.metadata.update_from_yaml(METADATA_FILE_PATH): the metadata are read
\* from the file of the step, or the call raises when the file cannot be read;
\* the dataset stays as create_empty left it.
UpdateFromYaml ==
    /\ pc = "created"
    /\ \E raised \in BOOLEAN :
          /\ pc' = IF raised THEN "aborted" ELSE "described"
          /\ error' = IF raised THEN Some("FileNotFoundError") ELSE None
    /\ UNCHANGED <<written_rest, dataset, chart_vars, call_vars>>

\* dataset.save(): the metadata of the dataset are written; it has no tables.
SaveDataset ==
    /\ pc = "described"
    /\ pc' = "saved"
    /\ UNCHANGED <<written_rest, dataset, error, chart_vars, call_vars>>

\* dataset.add(combined, repack=True): the table is written into the dataset, or
\* the call raises (repacking a table can fail) and the dataset stays without it.
AddTable ==
    /\ pc = "saved"
    /\ \E raised \in BOOLEAN :
          /\ dataset' = IF raised THEN dataset
                        ELSE Some([tables |-> dataset[1].tables \o <<combined_table>>])
          /\ pc' = IF raised THEN "aborted" ELSE "added"
          /\ error' = IF raised THEN Some("Exception") ELSE None
    /\ UNCHANGED <<written_rest, chart_vars, call_vars>>

Next ==
    \/ AddRegionAggregates
    \/ AmendZeroFilled
    \/ PrepareOutputTable
    \/ FillMissingValues
    \/ CreateEmpty
    \/ UpdateFromYaml
    \/ SaveDataset
    \/ AddTable

Spec == Init /\ [][Next]_vars

(***************************************************************************)
(* SpecRegions: run with other arguments of add_region_aggregates, on data *)
(* that may have a row named as a region already                           *)
(***************************************************************************)
\* A region that is not a key of REGIONS_TO_ADD (lines 47-50).
EU27 == "European Union (27)"

\* The code of the region in REGIONS_TO_ADD, or the one of lines 48-50.
CodeOf(region) ==
    LET found == {k \in DOMAIN REGIONS_TO_ADD : REGIONS_TO_ADD[k].region = region}
    IN IF found = {} THEN "OWID_EU27"
       ELSE REGIONS_TO_ADD[CHOOSE k \in found : TRUE].country_code

RegionsInputs ==
    {RunRegions, <<"Europe">>, <<"Africa", "Europe">>, <<"Africa", "Oceania">>,
     <<"Europe", EU27>>, <<EU27, "Africa">>}

RegionsInputFrames ==
    LET frames == {InputFrame(ussr_end, russia_start, 1, None, ukraine, Some(MaxVal)) :
                      ussr_end \in {FirstYear - 1, KnownYears[1] + 1},
                      russia_start \in {KnownYears[1], LastYear + 1},
                      ukraine \in BOOLEAN}
    IN frames \cup {frame \o <<EuropeRow>> : frame \in frames}

InitRegions ==
    /\ pc = "start"
    /\ data \in RegionsInputFrames
    /\ known_overlaps = Some(OVERLAPPING_DATA_TO_REMOVE_IN_AGGREGATES)
    /\ ignore_zeros = DefaultIgnoreZeros
    /\ aggregates \in {None, Some(AGGREGATES_BY_SUM)}
    /\ removed = Idle
    /\ removed_twice = Idle
    /\ detected = Idle
    /\ aggregated = Idle
    /\ amended = Idle
    /\ regions \in RegionsInputs
    /\ region_codes \in {None, Some([k \in DOMAIN regions |-> CodeOf(regions[k])])}
    /\ bp_table = None
    /\ table = Idle
    /\ combined_table = Idle
    /\ table_old = Idle
    /\ error = None
    /\ dataset = None
    /\ ChartsIdle
    /\ input = <<>> /\ output = <<>>

SpecRegions == InitRegions /\ [][Next]_vars

(***************************************************************************)
(* SpecOverlap: the overlap remover and detector applied to input data     *)
(***************************************************************************)
InitOverlap ==
    /\ pc = "input"
    /\ data \in InputFrames
    /\ known_overlaps \in KnownOverlapsInputs
    /\ ignore_zeros \in BOOLEAN
    /\ aggregates = None
    /\ removed = Idle
    /\ removed_twice = Idle
    /\ detected = Idle
    /\ aggregated = Idle
    /\ amended = Idle
    /\ regions = Idle
    /\ region_codes = None
    /\ bp_table = None
    /\ table = Idle
    /\ combined_table = Idle
    /\ table_old = Idle
    /\ error = None
    /\ dataset = None
    /\ ChartsIdle
    /\ input = <<>> /\ output = <<>>

RemoveOverlaps ==
    /\ pc = "input"
    /\ removed' = remove_overlapping_data_for_regions_and_members(
                      data, known_overlaps, ignore_zeros)
    /\ pc' = "removed"
    /\ UNCHANGED <<data, known_overlaps, ignore_zeros, aggregates, removed_twice,
                   detected, aggregated, amended, run_rest,
                   chart_vars, call_vars>>

RemoveOverlapsAgain ==
    /\ pc = "removed"
    /\ removed_twice' = remove_overlapping_data_for_regions_and_members(
                            removed.df, known_overlaps, ignore_zeros)
    /\ pc' = "removed_twice"
    /\ UNCHANGED <<data, known_overlaps, ignore_zeros, aggregates, removed,
                   detected, aggregated, amended, run_rest,
                   chart_vars, call_vars>>

DetectOverlaps ==
    /\ pc = "input"
    /\ detected' = detect_overlapping_data_for_regions_and_members(
                       data, RunIndexColumns, HISTORIC_TO_CURRENT_REGION,
                       known_overlaps, ignore_zeros)
    /\ pc' = "detected"
    /\ UNCHANGED <<data, known_overlaps, ignore_zeros, aggregates, removed,
                   removed_twice, aggregated, amended, run_rest,
                   chart_vars, call_vars>>

NextOverlap == RemoveOverlaps \/ RemoveOverlapsAgain \/ DetectOverlaps

SpecOverlap == InitOverlap /\ [][NextOverlap]_vars

(***************************************************************************)
(* Properties.  The definitions below state what is expected of the        *)
(* functions on their own terms, not with the operators that model them.   *)
(***************************************************************************)
\* The country has a row for the year with a value of the variable (not NaN and,
\* when zeros are ignored, not 0).
HasValueAt(df, country, variable, year, ign) ==
    \E i \in DOMAIN df :
        /\ df[i].country = country
        /\ df[i].year = year
        /\ df[i].vals[variable] # NaN
        /\ ign => df[i].vals[variable] # Some(0)

\* The years in which both the region and the member of the overlap have a value.
CommonYears(df, overlap, ign) ==
    {y \in Years : /\ HasValueAt(df, overlap.region, overlap.variable, y, ign)
                   /\ HasValueAt(df, overlap.member, overlap.variable, y, ign)}

BothPresent(df, overlap) ==
    \E i, j \in DOMAIN df : df[i].country = overlap.region /\ df[j].country = overlap.member

\* The value of the cell, 0 for NaN.
ValueOr0(cell) == IF cell = NaN THEN 0 ELSE cell[1]

RECURSIVE SumOfValues(_, _, _, _, _)
\* The sum of the values of the variable in the rows of df from position i on that
\* are rows of the countries for the year.
SumOfValues(df, countries, variable, year, i) ==
    IF i > Len(df) THEN 0
    ELSE (IF df[i].country \in countries /\ df[i].year = year
          THEN ValueOr0(df[i].vals[variable]) ELSE 0)
         + SumOfValues(df, countries, variable, year, i + 1)

\* The member countries of the regions, as the mapping tables give them.
MembersOf(region) ==
    CASE region = "Europe" -> {"Russia", "USSR", "Ukraine", "Other Europe (BP)"}
      [] region = "Upper-middle-income countries" -> {"Russia", "USSR"}
      [] region = "Lower-middle-income countries" -> {"Ukraine"}
      [] region = "Africa" -> {"Other Africa (BP)"}
      [] region = "Asia" -> {"Other Asia Pacific (BP)", "Other CIS (BP)",
                             "Other Middle East (BP)"}
      [] region = "North America" -> {"Other Caribbean (BP)", "Other North America (BP)"}
      [] region = "South America" -> {"Other South America (BP)"}
      [] region = "High-income countries" -> {"Netherlands Antilles"}
      [] OTHER -> {}

RegionNames == {REGIONS_TO_ADD[k].region : k \in DOMAIN REGIONS_TO_ADD}

Configured == OVERLAPPING_DATA_TO_REMOVE_IN_AGGREGATES[1]

Aggregated == pc \in {"aggregated", "amended"}

\* The data of the region after the removal of the known overlaps, as logged.
RemovedDataOf(region) ==
    LET k == CHOOSE n \in DOMAIN aggregated.log :
                aggregated.log[n].step = "remove" /\ aggregated.log[n].region = region
    IN aggregated.log[k].df

\* The columns summed in this call.
SummedColumns == IF aggregates = None THEN Range(Columns) ELSE Range(aggregates[1])

\* C1: after add_region_aggregates, for every region that has the region and the
\* member of a declared overlap among its members and every declared year, the
\* aggregate of the overlap's variable is the sum of the other members' values plus
\* the value of at most one of the two overlapping entities.
C1_AggregateCountsOneOfOverlap ==
    Aggregated =>
        \A i \in DOMAIN aggregated.data :
            LET row == aggregated.data[i]
                others == SumOfValues(data, MembersOf(row.country)
                                            \ {Configured.region, Configured.member},
                                      Configured.variable, row.year, 1)
                region_value == SumOfValues(data, {Configured.region},
                                            Configured.variable, row.year, 1)
                member_value == SumOfValues(data, {Configured.member},
                                            Configured.variable, row.year, 1)
            IN (/\ row.country \in RegionNames
                /\ {Configured.region, Configured.member} \subseteq MembersOf(row.country)
                /\ row.year \in Range(Configured.years))
               => row.vals[Configured.variable]
                    \in {Some(others), Some(others + region_value),
                         Some(others + member_value)}

\* C1 witness: a declared year in which the USSR and Russia both have a value and
\* Europe's aggregate is less than the sum of the two.
C1_Witness ==
    /\ Aggregated
    /\ \E i \in DOMAIN aggregated.data :
          LET row == aggregated.data[i]
          IN /\ row.country = "Europe"
             /\ row.year \in Range(Configured.years)
             /\ HasValueAt(data, "USSR", GasReserves, row.year, TRUE)
             /\ HasValueAt(data, "Russia", GasReserves, row.year, TRUE)
             /\ row.vals[GasReserves] # NaN
             /\ row.vals[GasReserves][1] <
                   SumOfValues(data, {"USSR", "Russia"}, GasReserves, row.year, 1)

\* The data in which the USSR and Russia both report the variable in exactly the
\* declared years, given to the remover with the configured overlap.
C2_Case ==
    /\ pc = "removed"
    /\ known_overlaps = Some(OVERLAPPING_DATA_TO_REMOVE_IN_AGGREGATES)
    /\ CommonYears(data, Configured, ignore_zeros) = Range(Configured.years)

\* C2 as stated: Russia's value is null in exactly the declared years and
\* unchanged in every other year.
C2_RussiaNullInDeclaredYears ==
    C2_Case =>
        \A i \in DOMAIN data :
            data[i].country = "Russia" =>
                IF data[i].year \in Range(Configured.years)
                THEN removed.df[i].vals[GasReserves] = NaN
                ELSE removed.df[i] = data[i]

\* C2 amended: it is the USSR (the entity the configured overlap designates) whose
\* value is null in the declared years and unchanged in every other year; the rows
\* of Russia and of every other country are unchanged.
C2_UssrNullInDeclaredYears ==
    C2_Case =>
        /\ Len(removed.df) = Len(data)
        /\ \A i \in DOMAIN data :
              IF data[i].country = "USSR" /\ data[i].year \in Range(Configured.years)
              THEN removed.df[i] = [data[i] EXCEPT !.vals[GasReserves] = NaN]
              ELSE removed.df[i] = data[i]

\* C2 witness: the case, with a value of the USSR made null and another kept.
C2_Witness ==
    /\ C2_Case
    /\ \E i, j \in DOMAIN data :
          /\ data[i].country = "USSR" /\ data[j].country = "USSR"
          /\ data[i].vals[GasReserves] # NaN /\ removed.df[i].vals[GasReserves] = NaN
          /\ data[j].vals[GasReserves] # NaN /\ removed.df[j].vals[GasReserves] # NaN

\* The entity the overlap designates.
Designated(overlap) == IF overlap.entity_to_make_nan = "region" THEN overlap.region
                       ELSE overlap.member

\* C3 as stated: for each known overlap with region and member present, the
\* variable is null in all rows of the designated entity.
C3_NullInAllRowsOfEntity ==
    pc = "removed" =>
        \A k \in DOMAIN known_overlaps[1] :
            LET overlap == known_overlaps[1][k]
            IN BothPresent(data, overlap) =>
                  \A i \in DOMAIN data :
                      data[i].country = Designated(overlap)
                          => removed.df[i].vals[overlap.variable] = NaN

\* C3 amended: the variable is made null in exactly those rows of the designated
\* entity whose year is one in which both the region and the member have a value;
\* every other row keeps its values.
C3_NullInOverlappingYearsOnly ==
    pc = "removed" =>
        \A k \in DOMAIN known_overlaps[1] :
            LET overlap == known_overlaps[1][k]
            IN /\ Len(removed.df) = Len(data)
               /\ \A i \in DOMAIN data :
                     IF /\ data[i].country = Designated(overlap)
                        /\ data[i].year \in CommonYears(data, overlap, ignore_zeros)
                     THEN removed.df[i] = [data[i] EXCEPT !.vals[overlap.variable] = NaN]
                     ELSE removed.df[i] = data[i]

\* C3 witness: the designated entity has a value made null in an overlapping year
\* and keeps its value in a year that is not one.
C3_Witness ==
    /\ pc = "removed"
    /\ \E i, j \in DOMAIN data :
          LET overlap == known_overlaps[1][1]
          IN /\ data[i].country = Designated(overlap)
             /\ data[j].country = Designated(overlap)
             /\ data[i].year \in CommonYears(data, overlap, ignore_zeros)
             /\ removed.df[i].vals[overlap.variable] = NaN
             /\ data[j].year \notin CommonYears(data, overlap, ignore_zeros)
             /\ data[j].vals[overlap.variable] # NaN
             /\ removed.df[j].vals[overlap.variable] = data[j].vals[overlap.variable]

\* C4: with ignore_zeros, every year the remover computes as overlapping and every
\* year of an overlap the detector reports is a year in which both the region and
\* the member have a value that is neither null nor 0.
C4_ZerosAreNeverOverlaps ==
    ignore_zeros =>
        /\ pc = "removed" =>
              \A k \in DOMAIN known_overlaps[1] :
                  removed.overlapping_years[k] # None =>
                      \A y \in Range(removed.overlapping_years[k][1]) :
                          /\ HasValueAt(data, known_overlaps[1][k].region,
                                        known_overlaps[1][k].variable, y, TRUE)
                          /\ HasValueAt(data, known_overlaps[1][k].member,
                                        known_overlaps[1][k].variable, y, TRUE)
        /\ pc = "detected" =>
              \A w \in detected : \A y \in Range(w.years) :
                  /\ HasValueAt(data, w.region, w.variable, y, TRUE)
                  /\ HasValueAt(data, w.member, w.variable, y, TRUE)

\* C4 witness: zeros are ignored, the USSR or Russia has a 0 in a year in which the
\* other has a value, and the remover finds overlapping years, that year not among
\* them.
C4_Witness ==
    /\ ignore_zeros
    /\ pc = "removed"
    /\ removed.overlapping_years[1] # None
    /\ removed.overlapping_years[1][1] # <<>>
    /\ \E y \in Years :
          /\ HasValueAt(data, "USSR", GasReserves, y, FALSE)
          /\ HasValueAt(data, "Russia", GasReserves, y, FALSE)
          /\ ~ HasValueAt(data, "USSR", GasReserves, y, TRUE)
          /\ y \notin Range(removed.overlapping_years[1][1])

\* The new overlap has the region, member, variable and years of a known overlap.
MatchesKnown(w, overlaps) ==
    \E k \in DOMAIN overlaps :
        /\ overlaps[k].region = w.region
        /\ overlaps[k].member = w.member
        /\ overlaps[k].variable = w.variable
        /\ overlaps[k].years = w.years

\* C5: the detector warns of a detected overlap if and only if no known overlap has
\* its region, member, variable and years.
C5_WarnsOnlyOfUnknownOverlaps ==
    pc = "detected" =>
        \A w \in NewOverlaps(data, RunIndexColumns, HISTORIC_TO_CURRENT_REGION,
                             ignore_zeros) :
            w \in detected <=> ~ MatchesKnown(w, known_overlaps[1])

\* A member country of the region has a row for the year in the input data.
MemberHasRow(region, year) ==
    \E j \in DOMAIN data : data[j].country \in MembersOf(region) /\ data[j].year = year

\* The value the known overlap takes out of the region's sum of the column for the
\* year: the designated entity's, in a year in which both entities have a value.
TakenOut(region, column, year) ==
    IF /\ column = Configured.variable
       /\ {Configured.region, Configured.member} \subseteq MembersOf(region)
       /\ year \in CommonYears(data, Configured, TRUE)
    THEN SumOfValues(data, {Designated(Configured)}, column, year, 1)
    ELSE 0

\* The rows that add_region_aggregates has added to the input data, which it
\* keeps in front of them.
AddedRows == {i \in DOMAIN aggregated.data : i > Len(data)}

\* The input rows are kept, in their places, with their years and values.
InputRowsKept ==
    /\ Len(aggregated.data) >= Len(data)
    /\ \A i \in DOMAIN data :
          /\ aggregated.data[i].country = data[i].country
          /\ aggregated.data[i].year = data[i].year
          /\ aggregated.data[i].vals = data[i].vals

ZeroFilledPairs == {<<CoalTWhZeroFilled, CoalTWh>>, <<BiofuelsTWhZeroFilled, BiofuelsTWh>>}

\* C8: after the zero-fill pass, in every row of a region of REGIONS_TO_ADD each
\* column 'x (zero filled)' holds the row's value of 'x', or 0 when that is null,
\* and the other columns are unchanged; the rows of other countries are unchanged.
C8_ZeroFilledFollowsOriginal ==
    pc = "amended" =>
        /\ Len(amended) = Len(aggregated.data)
        /\ \A i \in DOMAIN amended :
              LET before == aggregated.data[i]
                  after == amended[i]
              IN IF before.country \in RegionNames
                 THEN /\ after.country = before.country /\ after.year = before.year
                      /\ after.country_code = before.country_code
                      /\ \A pair \in ZeroFilledPairs :
                            /\ after.vals[pair[2]] = before.vals[pair[2]]
                            /\ after.vals[pair[1]] =
                                  (IF before.vals[pair[2]] # NaN THEN before.vals[pair[2]]
                                   ELSE Some(0))
                      /\ after.vals[GasReserves] = before.vals[GasReserves]
                 ELSE after = before

\* C8 witness: a row of a region whose 'x' has a value other than 0, copied to
\* 'x (zero filled)', and whose other 'x' is null, with 0 in its 'x (zero filled)';
\* both zero filled columns were null before the pass.
C8_Witness ==
    /\ pc = "amended"
    /\ \E i \in DOMAIN amended :
          /\ amended[i].country \in RegionNames
          /\ aggregated.data[i].vals[CoalTWhZeroFilled] = NaN
          /\ aggregated.data[i].vals[BiofuelsTWhZeroFilled] = NaN
          /\ aggregated.data[i].vals[CoalTWh] \notin {NaN, Some(0)}
          /\ amended[i].vals[CoalTWhZeroFilled] = aggregated.data[i].vals[CoalTWh]
          /\ aggregated.data[i].vals[BiofuelsTWh] = NaN
          /\ amended[i].vals[BiofuelsTWhZeroFilled] = Some(0)

\* C9: the remover applied to its own output changes no value, and on that second
\* pass the overlapping years it computes are empty for every known overlap.
C9_RemoverIsIdempotent ==
    pc = "removed_twice" =>
        /\ removed_twice.df = removed.df
        /\ \A k \in DOMAIN known_overlaps[1] :
              removed_twice.overlapping_years[k] \in {None, Some(<<>>)}

\* C9 witness: the first pass found overlapping years and made values null, the
\* second pass has run.
C9_Witness ==
    /\ pc = "removed_twice"
    /\ removed.df # data
    /\ removed.overlapping_years[1] \notin {None, Some(<<>>)}
    /\ removed_twice.overlapping_years[1] = Some(<<>>)

\* C10: for each known overlap whose region and member are present, if the years
\* in which both have a value are not the declared years, the remover logs the
\* warning of that overlap and still makes the designated entity's value null in
\* those years.
C10_StaleOverlapWarnsAndIsRemoved ==
    pc = "removed" =>
        \A k \in DOMAIN known_overlaps[1] :
            LET overlap == known_overlaps[1][k]
                common == CommonYears(data, overlap, ignore_zeros)
            IN (BothPresent(data, overlap) /\ common # Range(overlap.years)) =>
                  /\ [overlap_number |-> k - 1] \in removed.warnings
                  /\ removed.overlapping_years[k] = Some(Sorted(common))
                  /\ Len(removed.df) = Len(data)
                  /\ \A i \in DOMAIN data :
                        (data[i].country = Designated(overlap) /\ data[i].year \in common)
                            => removed.df[i].vals[overlap.variable] = NaN

\* C10 witness: the USSR and Russia overlap in years that are not the declared
\* ones; the warning is logged and a value of the designated entity is made null.
C10_Witness ==
    /\ pc = "removed"
    /\ CommonYears(data, known_overlaps[1][1], ignore_zeros)
          \notin {{}, Range(known_overlaps[1][1].years)}
    /\ [overlap_number |-> 0] \in removed.warnings
    /\ \E i \in DOMAIN data :
          /\ data[i].country = Designated(known_overlaps[1][1])
          /\ data[i].vals[GasReserves] # NaN
          /\ removed.df[i].vals[GasReserves] = NaN

\* The rows of the input data given to the remover for the region: those of its
\* member countries.
DataGivenToRemover(region) ==
    SelectSeq(data, LAMBDA row : row.country \in MembersOf(region))

\* The entry of the step for the region in the log of add_region_aggregates.
LogEntry(step, region) ==
    aggregated.log[CHOOSE n \in DOMAIN aggregated.log :
                       aggregated.log[n].step = step /\ aggregated.log[n].region = region]

\* C11, which the comment of add_region_aggregates on the call of the remover
\* states as well: for every region aggregated and every declared overlap, if
\* the overlap is not found in the data given to the remover (the years in
\* which its region and its member both have a value there are not the
\* declared years, also when one of the two has no rows there), the remover
\* logs the warning of that overlap.
C11_EveryUnfoundOverlapWarns ==
    Aggregated =>
        \A region \in RegionNames :
            \A k \in DOMAIN known_overlaps[1] :
                LET overlap == known_overlaps[1][k]
                    given == DataGivenToRemover(region)
                IN CommonYears(given, overlap, DefaultIgnoreZeros) # Range(overlap.years)
                      => [overlap_number |-> k - 1] \in LogEntry("remove", region).warnings

\* The position of the step for the region in the log of add_region_aggregates.
LogPosition(step, region) ==
    CHOOSE n \in DOMAIN aggregated.log :
        aggregated.log[n].step = step /\ aggregated.log[n].region = region

\* C12 as stated: for each region, overlap detection runs before the known
\* overlaps are removed, and removal runs before aggregation.
C12_DetectionBeforeRemoval ==
    Aggregated =>
        \A region \in RegionNames :
            /\ LogPosition("detect", region) < LogPosition("remove", region)
            /\ LogPosition("remove", region) < LogPosition("aggregate", region)

\* The steps of run in their order.
StepRank(step) ==
    CASE step = "start" -> 0
      [] step = "aggregated" -> 1
      [] step = "amended" -> 2
      [] step = "prepared" -> 3
      [] step = "filled" -> 4
      [] step = "created" -> 5
      [] step = "described" -> 6
      [] step = "saved" -> 7
      [] step = "added" -> 8

\* The log of add_region_aggregates: membership is resolved once, first; then,
\* region after region in the order requested, the known overlaps are removed,
\* the detector is given the data the remover returned, and the region is
\* aggregated; nothing else is logged.
LogInOrder ==
    /\ Len(aggregated.log) = 1 + 3 * Len(regions)
    /\ aggregated.log[1].step = "resolve"
    /\ \A k \in DOMAIN regions :
          /\ aggregated.log[3 * k - 1].step = "remove"
          /\ aggregated.log[3 * k].step = "detect"
          /\ aggregated.log[3 * k + 1].step = "aggregate"
          /\ \A n \in {3 * k - 1, 3 * k, 3 * k + 1} :
                aggregated.log[n].region = regions[k]
          /\ aggregated.log[3 * k].df = aggregated.log[3 * k - 1].df
          /\ aggregated.log[3 * k - 1].df =
                remove_overlapping_data_for_regions_and_members(
                    DataGivenToRemover(regions[k]), known_overlaps, DefaultIgnoreZeros).df

\* C12 amended: one run is a single forward pass in the order resolve membership,
\* remove known overlaps, detect overlaps, aggregate, zero-fill, merge with the
\* previous version: every step of run moves to the next step of that order (or
\* aborts the run), so that no step is repeated, and for each region the known
\* overlaps are removed before the detector runs on what is left, and the
\* detector runs before the aggregation.
C12_SingleForwardPass ==
    /\ [](aggregated # Idle => LogInOrder)
    /\ [][pc' = "aborted" \/ StepRank(pc') = StepRank(pc) + 1]_vars

\* C12 witness: a run that reached its end, in which the remover made a value of
\* Europe's data null before the detector, which found another overlap, ran.
C12_Witness ==
    /\ pc = "added"
    /\ LogEntry("remove", "Europe").df # DataGivenToRemover("Europe")
    /\ LogEntry("detect", "Europe").warnings # {}
    /\ LogPosition("remove", "Europe") < LogPosition("detect", "Europe")

\* The positions in regions of the regions that are in no mapping table.
AbsentRegions == {k \in DOMAIN regions : regions[k] \notin RegionNames}

\* The rows that add_region_aggregates returned after those of its input.
NewRows == SubSeq(aggregated.data, Len(data) + 1, Len(aggregated.data))

\* C13 as stated: when a region that is absent from the mapping tables is
\* requested, add_region_aggregates raises no error and returns no row of that
\* region.
C13_AbsentRegionRaisesNoError ==
    aggregated # Idle =>
        \A k \in AbsentRegions :
            /\ aggregated.error = None
            /\ \A i \in DOMAIN aggregated.data : aggregated.data[i].country # regions[k]

\* C13 amended: add_region_aggregates raises KeyError exactly when a requested
\* region is not a key of REGIONS_TO_ADD, and then it returns nothing and the run
\* is aborted with nothing written; a requested region of REGIONS_TO_ADD none of
\* whose members has a row in the data raises no error and gets no row.
C13_AbsentRegionRaisesKeyError ==
    aggregated # Idle =>
        /\ AbsentRegions # {} =>
              /\ aggregated.error = Some("KeyError")
              /\ aggregated.data = <<>>
              /\ pc = "aborted" /\ amended = Idle /\ dataset = None
        /\ AbsentRegions = {} =>
              /\ aggregated.error = None
              /\ \A k \in DOMAIN regions :
                    (\A i \in DOMAIN data : data[i].country \notin MembersOf(regions[k]))
                        => \A n \in DOMAIN NewRows : NewRows[n].country # regions[k]

\* C13 witness: Europe and then a region that is not in REGIONS_TO_ADD were
\* requested: Europe was aggregated, and the run is aborted by the KeyError.
C13_Witness ==
    /\ pc = "aborted"
    /\ regions = <<"Europe", EU27>>
    /\ aggregated.error = Some("KeyError")
    /\ \E n \in DOMAIN aggregated.log : aggregated.log[n].step = "aggregate"

\* The code of the region with that name in region_codes, NaN without codes.
RegionCode(country) ==
    IF region_codes = None THEN NaN
    ELSE Some(region_codes[1][CHOOSE k \in DOMAIN regions : regions[k] = country])

\* C14 as stated: add_region_aggregates returns every input row as it was, then
\* the new rows of the requested regions with the region as country and the code
\* at the region's position in region_codes.
C14_InputRowsUnchanged ==
    (aggregated # Idle /\ aggregated.error = None) =>
        /\ \A i \in DOMAIN data : aggregated.data[i] = data[i]
        /\ \A n \in DOMAIN NewRows :
              /\ NewRows[n].country \in Range(regions)
              /\ NewRows[n].country_code = RegionCode(NewRows[n].country)

\* C14 amended: add_region_aggregates returns every input row with its country,
\* year and values as they were, then the new rows of the requested regions with
\* the region as country; when region_codes is given, every row whose country is
\* a requested region, new or of the input, has the code at the region's position
\* in region_codes, and no other row's country_code changes.
C14_OnlyRegionRowsGetCodes ==
    (aggregated # Idle /\ aggregated.error = None) =>
        /\ Len(aggregated.data) >= Len(data)
        /\ \A i \in DOMAIN data :
              /\ [aggregated.data[i] EXCEPT !.country_code = data[i].country_code]
                    = data[i]
              /\ aggregated.data[i].country_code =
                    IF region_codes # None /\ data[i].country \in Range(regions)
                    THEN RegionCode(data[i].country)
                    ELSE data[i].country_code
        /\ \A n \in DOMAIN NewRows :
              /\ NewRows[n].country \in Range(regions)
              /\ NewRows[n].country_code = RegionCode(NewRows[n].country)

\* C14 witness: Africa and Europe were requested with their codes on data that has
\* a row named Europe: that row has Europe's code now, a value of the USSR that
\* the remover made null for Europe is as it was, and there are new rows.
C14_Witness ==
    /\ aggregated # Idle /\ aggregated.error = None
    /\ regions = <<"Africa", "Europe">>
    /\ region_codes # None
    /\ \E i \in DOMAIN data :
          /\ data[i].country = "Europe"
          /\ aggregated.data[i].country_code = Some("OWID_EUR")
          /\ data[i].country_code # Some("OWID_EUR")
    /\ LogEntry("remove", "Europe").df # DataGivenToRemover("Europe")
    /\ \E n \in DOMAIN NewRows : NewRows[n].country_code = Some("OWID_AFR")

\* Two rows of the frame have the same country and year.
SameIndexTwice(df) ==
    \E i \in DOMAIN df : \E j \in DOMAIN df \ {i} :
        df[i].country = df[j].country /\ df[i].year = df[j].year

\* A row of the table has more than one row of the previous version, regions left
\* out, with its country and year.
MatchedTwice ==
    \E i \in DOMAIN table :
        \E j \in DOMAIN table_old : \E k \in DOMAIN table_old \ {j} :
            /\ table[i].country \notin RegionNames
            /\ table_old[j].country = table[i].country /\ table_old[j].year = table[i].year
            /\ table_old[k].country = table[i].country /\ table_old[k].year = table[i].year

\* The value of the variable that the country has in the year in df (0 for none).
ValueAt(df, country, variable, year) == SumOfValues(df, {country}, variable, year, 1)

\* C16: the detector alters nothing and an overlap it warns of does not abort the
\* run: add_region_aggregates returns, and for every overlap the detector warned
\* of for a region (all of them undeclared, the declared ones being removed
\* before), in each of its years the aggregate of a summed variable in the row
\* added for the region is the sum of the values of the other members in the
\* data given to the detector, plus the value of the overlap's region, plus the
\* value of its member, both as they are in the input data.
C16_UndeclaredOverlapIsCountedTwice ==
    Aggregated =>
        /\ aggregated.error = None
        /\ \A region \in RegionNames :
              LET given == LogEntry("detect", region).df
              IN \A w \in LogEntry("detect", region).warnings :
                    \A i \in AddedRows :
                        LET row == aggregated.data[i]
                        IN (/\ row.country = region
                            /\ row.year \in Range(w.years)
                            /\ w.variable \in SummedColumns)
                           => /\ HasValueAt(data, w.region, w.variable, row.year, TRUE)
                              /\ HasValueAt(data, w.member, w.variable, row.year, TRUE)
                              /\ row.vals[w.variable] =
                                    Some(SumOfValues(given, MembersOf(region)
                                                            \ {w.region, w.member},
                                                     w.variable, row.year, 1)
                                         + ValueAt(data, w.region, w.variable, row.year)
                                         + ValueAt(data, w.member, w.variable, row.year))

\* C16 witness: the detector warned that the USSR overlaps with Russia on coal
\* consumption, which is not declared, and Europe's aggregate of a year of that
\* overlap is the sum of the two.
C16_Witness ==
    /\ Aggregated
    /\ \E w \in LogEntry("detect", "Europe").warnings :
          /\ w.region = "USSR" /\ w.member = "Russia" /\ w.variable = CoalTWh
          /\ \E i \in DOMAIN aggregated.data :
                /\ aggregated.data[i].country = "Europe"
                /\ aggregated.data[i].year \in Range(w.years)
                /\ aggregated.data[i].vals[CoalTWh] =
                      Some(ValueAt(data, "USSR", CoalTWh, aggregated.data[i].year)
                           + ValueAt(data, "Russia", CoalTWh, aggregated.data[i].year))
                /\ ValueAt(data, "USSR", CoalTWh, aggregated.data[i].year) > 0
                /\ ValueAt(data, "Russia", CoalTWh, aggregated.data[i].year) > 0

(***************************************************************************)
(* Chart diff app (apps/wizard/app_pages/chart_diff/app.py):               *)
(* get_chart_diffs_from_grapher and its workers _get_chart_diff.           *)
(*                                                                         *)
(* A future is "queued", "running" (a worker has taken the work item),     *)
(* "source_open" (the worker has opened its source session), "target_open" *)
(* (both sessions are open and the chart is being read), "returned" or     *)
(* "raised" (from_chart_id is over, the with blocks are being left and the *)
(* future is not yet finished), "done" or "failed".  A session is the pair *)
(* of the one who opened it (MAIN or the chart id of the fetch) and of the *)
(* engine it is bound to.  The two engines are objects of the caller,      *)
(* which every fetch receives; a session that runs a query draws a         *)
(* connection from the pool of its engine and gives it back when it is     *)
(* closed.                                                                 *)
(***************************************************************************)
MaxCharts == 3

DefaultMaxWorkers == 10

MaxWorkersInputs == {1, 2, DefaultMaxWorkers}

\* The chart ids modified by the admin, in the order the caller iterates them.
RECURSIVE Rotated(_, _, _)
Rotated(n, shift, k) ==
    IF k > n THEN <<>> ELSE <<((k + shift - 1) % n) + 1>> \o Rotated(n, shift, k + 1)

ChartIdsInputs == {Rotated(n, shift, 1) : n \in 0..MaxCharts, shift \in 0..1}

\* The caller of get_chart_diffs_from_grapher; the chart ids are positive.
MAIN == 0

\* The engines that get_chart_diffs_from_grapher receives and hands to every
\* executor.submit(_get_chart_diff, chart_id, source_engine, target_engine).
source_engine == "source"

target_engine == "target"

\* Session(engine), opened by the owner.
Session(owner, engine) == <<owner, engine>>

\* The engine a session is bound to.
EngineOf(session) == session[2]

\* The chart diff a successful fetch of chart_id produces, and the exception
\* a failed one raises.
ChartDiff(chart_id) == [chart_id |-> chart_id, kind |-> "ChartDiffModified"]

FetchError(chart_id) == [chart_id |-> chart_id, kind |-> "Exception"]

Running == {id \in DOMAIN futures : futures[id] \notin {"queued", "done", "failed"}}

Finished(id) == futures[id] \in {"done", "failed"}

\* ThreadPoolExecutor(max_workers): a queued work item is taken only by one
\* of at most max_workers worker threads.
WorkerAlwaysFree(running, workers) == TRUE

WorkerFree(running, workers) == running < workers

\* The sessions of the two with blocks of _get_chart_diff(chart_id, ...).
SessionsOfFetch(chart_id) ==
    {Session(chart_id, source_engine), Session(chart_id, target_engine)}

\* source_session and target_session of a worker: the sessions it has opened
\* and holds open.
SessionsHeldBy(chart_id) == {s \in open_sessions : s[1] = chart_id}

\* future.result() blocks until the future has finished.
ResultWithoutWaiting(id) == TRUE

ResultReady(id) == Finished(id)

\* The position of the next future the caller collects.
NextCollected == Len(chart_diffs) + 1

InitChartDiffs ==
    /\ pc = "get_ids"
    /\ max_workers \in MaxWorkersInputs
    /\ chart_ids = <<>>
    /\ futures = <<>>
    /\ open_sessions = {}
    /\ session_uses = {}
    /\ finished = <<>>
    /\ chart_diffs = <<>>
    /\ outcome = None
    /\ data = Idle /\ known_overlaps = Idle /\ ignore_zeros = FALSE
    /\ aggregates = None /\ removed = Idle /\ removed_twice = Idle
    /\ detected = Idle /\ aggregated = Idle /\ amended = Idle
    /\ regions = Idle /\ region_codes = None /\ bp_table = None
    /\ table = Idle /\ table_old = Idle /\ combined_table = Idle
    /\ dataset = None /\ error = None
    /\ input = <<>> /\ output = <<>>

bp_vars == <<data, known_overlaps, ignore_zeros, aggregates, removed, removed_twice,
             detected, aggregated, amended, run_rest>>

\* with Session(source_engine) as source_session:
\*     chart_ids = _modified_chart_ids_by_admin(source_session)
ModifiedChartIds ==
    /\ pc = "get_ids"
    /\ \E ids \in ChartIdsInputs :
          /\ chart_ids' = ids
          /\ pc' = IF ids = <<>> THEN "collect" ELSE "submit"
    /\ session_uses' = session_uses \cup {[session |-> Session(MAIN, source_engine), by |-> MAIN]}
    /\ UNCHANGED <<max_workers, futures, open_sessions, finished, chart_diffs, outcome,
                   bp_vars, call_vars>>

\* executor.submit(_get_chart_diff, chart_id, source_engine, target_engine),
\* once for every chart id, in their order.
Submit ==
    /\ pc = "submit"
    /\ LET i == Cardinality(DOMAIN futures) + 1
       IN  /\ futures' = [id \in DOMAIN futures \cup {chart_ids[i]} |->
                            IF id \in DOMAIN futures THEN futures[id] ELSE "queued"]
           /\ pc' = IF i = Len(chart_ids) THEN "collect" ELSE "submit"
    /\ UNCHANGED <<max_workers, chart_ids, open_sessions, session_uses, finished,
                   chart_diffs, outcome, bp_vars, call_vars>>

\* The first queued chart id, in the order of submission.
FirstQueued ==
    LET queued == {i \in DOMAIN chart_ids :
                      chart_ids[i] \in DOMAIN futures /\ futures[chart_ids[i]] = "queued"}
    IN  IF queued = {} THEN None
        ELSE Some(chart_ids[CHOOSE i \in queued : \A j \in queued : i <= j])

\* A worker thread takes the next work item of the queue; its future is
\* running from then on.
TakeWorkItem ==
    /\ FirstQueued # None
    /\ WorkerFree(Cardinality(Running), max_workers)
    /\ futures' = [futures EXCEPT ![FirstQueued[1]] = "running"]
    /\ UNCHANGED <<pc, max_workers, chart_ids, open_sessions, session_uses, finished,
                   chart_diffs, outcome, bp_vars, call_vars>>

\* with Session(source_engine) as source_session.
OpenSourceSession(id) ==
    /\ futures[id] = "running"
    /\ futures' = [futures EXCEPT ![id] = "source_open"]
    /\ open_sessions' = open_sessions \cup {Session(id, source_engine)}
    /\ UNCHANGED <<pc, max_workers, chart_ids, session_uses, finished, chart_diffs,
                   outcome, bp_vars, call_vars>>

\* with Session(target_engine) as target_session.
OpenTargetSession(id) ==
    /\ futures[id] = "source_open"
    /\ futures' = [futures EXCEPT ![id] = "target_open"]
    /\ open_sessions' = open_sessions \cup {Session(id, target_engine)}
    /\ UNCHANGED <<pc, max_workers, chart_ids, session_uses, finished, chart_diffs,
                   outcome, bp_vars, call_vars>>

\* ChartDiffModified.from_chart_id(chart_id, source_session, target_session)
\* returns or raises.
FromChartId(id) ==
    /\ futures[id] = "target_open"
    /\ \E ok \in BOOLEAN : futures' = [futures EXCEPT ![id] = IF ok THEN "returned" ELSE "raised"]
    /\ session_uses' = session_uses \cup {[session |-> s, by |-> id] : s \in SessionsHeldBy(id)}
    /\ UNCHANGED <<pc, max_workers, chart_ids, open_sessions, finished, chart_diffs,
                   outcome, bp_vars, call_vars>>

\* The with block of the target session is left.
CloseTargetSession(id) ==
    /\ futures[id] \in {"returned", "raised"}
    /\ Session(id, target_engine) \in open_sessions
    /\ open_sessions' = open_sessions \ {Session(id, target_engine)}
    /\ UNCHANGED <<pc, max_workers, chart_ids, futures, session_uses, finished,
                   chart_diffs, outcome, bp_vars, call_vars>>

\* The with block of the source session is left.
CloseSourceSession(id) ==
    /\ futures[id] \in {"returned", "raised"}
    /\ Session(id, target_engine) \notin open_sessions
    /\ Session(id, source_engine) \in open_sessions
    /\ open_sessions' = open_sessions \ {Session(id, source_engine)}
    /\ UNCHANGED <<pc, max_workers, chart_ids, futures, session_uses, finished,
                   chart_diffs, outcome, bp_vars, call_vars>>

\* The worker sets the result or the exception of the future, which is
\* finished from then on.
FinishFetch(id) ==
    /\ futures[id] \in {"returned", "raised"}
    /\ Session(id, source_engine) \notin open_sessions
    /\ futures' = [futures EXCEPT ![id] = IF futures[id] = "returned" THEN "done" ELSE "failed"]
    /\ finished' = Append(finished, id)
    /\ UNCHANGED <<pc, max_workers, chart_ids, open_sessions, session_uses, chart_diffs,
                   outcome, bp_vars, call_vars>>

\* chart_diffs[chart_id] = future.result(), for the futures in the order of
\* the chart ids; the exception of a failed fetch leaves the loop.
Collect ==
    /\ pc = "collect"
    /\ NextCollected <= Len(chart_ids)
    /\ LET id == chart_ids[NextCollected]
       IN  /\ ResultReady(id)
           /\ IF futures[id] = "failed"
              THEN /\ pc' = "raising"
                   /\ UNCHANGED chart_diffs
              ELSE /\ pc' = "collect"
                   /\ chart_diffs' = Append(chart_diffs, [chart_id |-> id, diff |-> ChartDiff(id)])
    /\ UNCHANGED <<max_workers, chart_ids, futures, open_sessions, session_uses, finished,
                   outcome, bp_vars, call_vars>>

\* The with block of the executor ends: shutdown(wait=True) joins the worker
\* threads, which first finish every work item of the queue; then the
\* dictionary is returned or the exception goes on to the caller.
Shutdown ==
    /\ \/ pc = "collect" /\ NextCollected > Len(chart_ids)
       \/ pc = "raising"
    /\ \A id \in DOMAIN futures : Finished(id)
    /\ IF pc = "raising"
       THEN /\ outcome' = Some([raised |-> FetchError(chart_ids[NextCollected])])
            /\ pc' = "raised"
       ELSE /\ outcome' = Some([returned |-> chart_diffs])
            /\ pc' = "returned"
    /\ UNCHANGED <<max_workers, chart_ids, futures, open_sessions, session_uses, finished,
                   chart_diffs, bp_vars, call_vars>>

NextChartDiffs ==
    \/ ModifiedChartIds
    \/ Submit
    \/ TakeWorkItem
    \/ \E id \in DOMAIN futures : OpenSourceSession(id)
    \/ \E id \in DOMAIN futures : OpenTargetSession(id)
    \/ \E id \in DOMAIN futures : FromChartId(id)
    \/ \E id \in DOMAIN futures : CloseTargetSession(id)
    \/ \E id \in DOMAIN futures : CloseSourceSession(id)
    \/ \E id \in DOMAIN futures : FinishFetch(id)
    \/ Collect
    \/ Shutdown

SpecChartDiffs == InitChartDiffs /\ [][NextChartDiffs]_vars

\* The fetches that have handed sessions to ChartDiffModified.from_chart_id.
UsersOfSessions == {u.by : u \in session_uses} \ {MAIN}

\* The connections drawn from the pool of the engine: one for every open
\* session bound to the engine that has run its query.
ConnectionsOf(engine) ==
    {u.session : u \in {v \in session_uses :
                           v.session \in open_sessions /\ EngineOf(v.session) = engine}}

\* At most max_workers fetches are running; an open session belongs to a
\* running fetch, which holds both of its own sessions while it reads the
\* chart and has opened and used them once it has read it; and every session
\* a fetch has used is one that this fetch opened itself, so that no session
\* is used by two fetches or by a fetch and the caller.
BoundedWorkersOwnSessions ==
    /\ Cardinality(Running) <= max_workers
    /\ \A s \in open_sessions : s[1] \in Running
    /\ \A id \in Running :
          /\ <<id, "target">> \in open_sessions => <<id, "source">> \in open_sessions
          /\ futures[id] = "target_open" => SessionsOfFetch(id) \subseteq open_sessions
          /\ futures[id] \in {"returned", "raised"} <=> id \in {u.by : u \in session_uses}
    /\ \A u \in session_uses : u.session[1] = u.by
    /\ \A id \in UsersOfSessions :
          {u.session : u \in {v \in session_uses : v.by = id}}
              = {<<id, "source">>, <<id, "target">>}
    /\ \A id \in DOMAIN futures : Finished(id) => id \in UsersOfSessions

\* C18 as stated: the fetches are bounded and use their own sessions, and the
\* workers share no mutable state: no object that changes is used by two
\* fetches, so that the connections drawn from the pool of an engine are at
\* any moment those of one fetch.
C18_WorkersShareNoMutableState ==
    /\ BoundedWorkersOwnSessions
    /\ \A engine \in {source_engine, target_engine} :
          \A s, t \in ConnectionsOf(engine) : s[1] = t[1]

\* C18, amended: the fetches are bounded and use their own sessions, which no
\* other fetch uses; the two engines are shared: every fetch that has read
\* its chart has used a session of each of the two engines, and the pool of
\* an engine serves at any moment at most one connection to each running
\* fetch, at most max_workers in all.
C18_BoundedWorkersOwnSessionsSharedEngines ==
    /\ BoundedWorkersOwnSessions
    /\ \A id \in UsersOfSessions :
          {EngineOf(u.session) : u \in {v \in session_uses : v.by = id}}
              = {source_engine, target_engine}
    /\ \A engine \in {source_engine, target_engine} :
          /\ Cardinality(ConnectionsOf(engine)) <= max_workers
          /\ \A s \in ConnectionsOf(engine) : s[1] \in Running
          /\ \A s, t \in ConnectionsOf(engine) : s[1] = t[1] => s = t

\* C18 witness: with fewer workers than charts, all workers, more than one,
\* have read their chart with both of their sessions still open, so that
\* each engine serves connections to all of them, while a submitted fetch
\* still waits in the queue.
C18_Witness ==
    /\ max_workers < Len(chart_ids)
    /\ Cardinality(Running) = max_workers
    /\ max_workers > 1
    /\ \A id \in Running :
          /\ futures[id] \in {"returned", "raised"}
          /\ SessionsOfFetch(id) \subseteq open_sessions
    /\ Cardinality(ConnectionsOf(source_engine)) = max_workers
    /\ FirstQueued # None

\* The first chart id, in the order of the chart ids, whose fetch failed.
FirstFailed ==
    LET failed == {i \in DOMAIN chart_ids :
                      chart_ids[i] \in DOMAIN futures /\ futures[chart_ids[i]] = "failed"}
    IN  chart_ids[CHOOSE i \in failed : \A j \in failed : i <= j]

AnyFailed == \E id \in DOMAIN futures : futures[id] = "failed"

\* C19: when get_chart_diffs_from_grapher has returned or raised, every
\* chart id has been submitted and its fetch has finished; if no fetch
\* failed the result has exactly one entry per chart id, in the order of the
\* chart ids, whatever the order of completion; if a fetch failed, the
\* failure of the first failed chart id is raised and nothing is returned.
C19_ReturnsAfterAllInOrder ==
    outcome # None =>
        /\ \A i \in DOMAIN chart_ids :
              chart_ids[i] \in DOMAIN futures /\ Finished(chart_ids[i])
        /\ Len(finished) = Len(chart_ids)
        /\ IF AnyFailed
           THEN outcome[1] = [raised |-> FetchError(FirstFailed)]
           ELSE /\ DOMAIN outcome[1] = {"returned"}
                /\ Len(outcome[1].returned) = Len(chart_ids)
                /\ \A i \in DOMAIN chart_ids :
                      outcome[1].returned[i]
                          = [chart_id |-> chart_ids[i], diff |-> ChartDiff(chart_ids[i])]

\* C19 witness: the dictionary of MaxCharts charts has been returned although
\* the fetch of the last chart id finished first and the chart ids are not in
\* increasing order.
C19_Witness ==
    /\ outcome # None
    /\ DOMAIN outcome[1] = {"returned"}
    /\ Len(chart_ids) = MaxCharts
    /\ chart_ids[1] > chart_ids[MaxCharts]
    /\ finished[1] = chart_ids[MaxCharts]
    /\ outcome[1].returned[1].chart_id = chart_ids[1]

\* The rows of the previous version for a country and a year that hold the column.
OldRowsFor(country, year, column) ==
    {k \in DOMAIN table_old :
        /\ table_old[k].country = country
        /\ table_old[k].year = year
        /\ column \in DOMAIN table_old[k].vals}

\* C20: when fill_missing_values_with_previous_version has returned, the
\* combined table has the rows of the current table, with the same country
\* and year in the same place; every cell that is not null in the current
\* table has kept its value; and a cell that was null and is not null any more
\* holds the value of the previous version for the same country, year and
\* column.
C20_FillsOnlyNullsFromPreviousVersion ==
    pc \in {"filled", "created", "described", "saved", "added"} =>
        /\ Len(combined_table) = Len(table)
        /\ \A i \in DOMAIN table :
              /\ combined_table[i].country = table[i].country
              /\ combined_table[i].year = table[i].year
              /\ \A c \in DOMAIN table[i].vals :
                    /\ c \in DOMAIN combined_table[i].vals
                    /\ table[i].vals[c] # NaN => combined_table[i].vals[c] = table[i].vals[c]
                    /\ (table[i].vals[c] = NaN /\ combined_table[i].vals[c] # NaN) =>
                          \E k \in OldRowsFor(table[i].country, table[i].year, c) :
                              table_old[k].vals[c] = combined_table[i].vals[c]

\* C20 witness: the combined table holds a cell that was null and now has the
\* value of the previous version, and a cell that has kept its value although
\* the previous version has another one for the same country, year and column.
C20_Witness ==
    /\ pc = "filled"
    /\ \E i \in DOMAIN table : \E c \in DOMAIN table[i].vals :
          /\ table[i].vals[c] = NaN
          /\ combined_table[i].vals[c] # NaN
    /\ \E i \in DOMAIN table : \E c \in DOMAIN table[i].vals :
          /\ table[i].vals[c] # NaN
          /\ combined_table[i].vals[c] = table[i].vals[c]
          /\ \E k \in OldRowsFor(table[i].country, table[i].year, c) :
                table_old[k].vals[c] \notin {NaN, table[i].vals[c]}

\* C21: when fill_missing_values_with_previous_version has returned, every
\* row of the current table whose country is a region of REGIONS_TO_ADD has,
\* in every column of the current table, the value it had before, null or
\* not, whatever the previous version holds for that region and year.
C21_RegionRowsAreNeverFilled ==
    pc \in {"filled", "created", "described", "saved", "added"} =>
        \A i \in DOMAIN table :
            table[i].country \in RegionNames =>
                /\ combined_table[i].country = table[i].country
                /\ combined_table[i].year = table[i].year
                /\ \A c \in DOMAIN table[i].vals :
                      combined_table[i].vals[c] = table[i].vals[c]

\* C21 witness: a row of a region has a null that stays null although the
\* previous version has a value for this region, year and column, while a null
\* of a country has been filled in the same table.
C21_Witness ==
    /\ pc = "filled"
    /\ \E i \in DOMAIN table : \E c \in DOMAIN table[i].vals :
          /\ table[i].country \in RegionNames
          /\ table[i].vals[c] = NaN
          /\ combined_table[i].vals[c] = NaN
          /\ \E k \in OldRowsFor(table[i].country, table[i].year, c) :
                table_old[k].vals[c] # NaN
    /\ \E i \in DOMAIN table : \E c \in DOMAIN table[i].vals :
          /\ table[i].country \notin RegionNames
          /\ table[i].vals[c] = NaN
          /\ combined_table[i].vals[c] # NaN

(***************************************************************************)
(* FAOSTAT (etl/steps/data/garden/faostat/2022-05-17/shared.py):           *)
(* remove_duplicates.                                                      *)
(*                                                                         *)
(* A data frame is a record of its index columns and of the sequence of    *)
(* its rows; a row is a function from the columns to values.  A flag is    *)
(* NaN or <<flag>>; the ranking of a flag is its position in FLAGS_RANKING,*)
(* counted from 0.                                                         *)
(***************************************************************************)
\* The BP step does not run.
BpIdle ==
    /\ data = Idle /\ known_overlaps = Idle /\ ignore_zeros = FALSE
    /\ aggregates = None /\ removed = Idle /\ removed_twice = Idle
    /\ detected = Idle /\ aggregated = Idle /\ amended = Idle
    /\ regions = Idle /\ region_codes = None /\ bp_table = None
    /\ table = Idle /\ table_old = Idle /\ combined_table = Idle
    /\ dataset = None /\ error = None

FLAGS_RANKING ==
    <<NaN, Some("F"), Some("A"), Some("Fc"), Some("I"), Some("W"),
       Some("Fm"), Some("Q"), Some("*"), Some("Im"), Some("M"), Some("R"),
       Some("SD"), Some("S"), Some("Qm"), Some("Fk"), Some("Fb"),
       Some("E"), Some("X"), Some("Bk"), Some("NV"), Some("FC"), Some("Z"),
       Some("P"), Some("W"), Some("B"), Some("w"), Some("NR"), Some("_P"),
       Some("_O"), Some("_M"), Some("_U"), Some("_I"), Some("_V"),
       Some("_L"), Some("_A"), Some("_E"), Some("Cv"), Some("_")>>

\* pd.merge(data, FLAGS_RANKING[["flag", "ranking"]], on="flag", how="left"):
\* one row for every entry of the ranking with the flag of the row, in the
\* order of the ranking, and one row with no ranking when there is none.
RECURSIVE MergeFlagRanking(_, _)
MergeFlagRanking(rows, i) ==
    IF i > Len(rows) THEN <<>>
    ELSE LET positions == {k \in DOMAIN FLAGS_RANKING : FLAGS_RANKING[k] = rows[i].flag}
             withRanking(ranking) ==
                 [c \in DOMAIN rows[i] \cup {"flag_ranking"} |->
                     IF c = "flag_ranking" THEN ranking ELSE rows[i][c]]
             Matches[k \in 0..Len(FLAGS_RANKING)] ==
                 IF k = 0 THEN <<>>
                 ELSE Matches[k - 1] \o (IF k \in positions
                                         THEN <<withRanking(Some(k - 1))>> ELSE <<>>)
         IN (IF positions = {} THEN <<withRanking(NaN)>> ELSE Matches[Len(FLAGS_RANKING)])
            \o MergeFlagRanking(rows, i + 1)

\* The columns remove_duplicates uses as the index, in its order.
INDEX_COLUMNS == <<"country", "year", "item", "element", "unit">>

\* The strings of the index columns, in increasing order.
StringOrder == <<"Chile", "Maize", "Wheat", "tonnes">>

\* The place of a value in the order of its column.
Ordinal(column, value) ==
    IF column = "year" THEN value ELSE CHOOSE k \in DOMAIN StringOrder : StringOrder[k] = value

\* The order of sort_values(index_columns + ["flag_ranking"]): by the index
\* columns in turn, then by the ranking, a missing ranking last.
RECURSIVE RowBefore(_, _, _)
RowBefore(a, b, by) ==
    IF by = <<>> THEN FALSE
    ELSE LET column == Head(by)
             place(row) == IF column = "flag_ranking"
                           THEN (IF row[column] = NaN THEN Len(FLAGS_RANKING)
                                 ELSE row[column][1])
                           ELSE Ordinal(column, row[column])
         IN \/ place(a) < place(b)
            \/ place(a) = place(b) /\ RowBefore(a, b, Tail(by))

\* sort_values: the rows in the order of RowBefore, equal rows in the order
\* they had.
RECURSIVE SortRows(_, _)
SortRows(rows, by) ==
    IF rows = <<>> THEN <<>>
    ELSE LET first == CHOOSE i \in DOMAIN rows :
                          \A j \in DOMAIN rows :
                              /\ ~RowBefore(rows[j], rows[i], by)
                              /\ j < i => RowBefore(rows[j], rows[i], by)
                                          \/ RowBefore(rows[i], rows[j], by)
         IN <<rows[first]>>
            \o SortRows(SubSeq(rows, 1, first - 1) \o SubSeq(rows, first + 1, Len(rows)), by)

\* The values of a row in the given columns.
KeyOf(row, columns) == [k \in DOMAIN columns |-> row[columns[k]]]

\* Mutant: no row is marked as a duplicate.
NoneDuplicated(rows, subset) == {}

\* The positions of the rows that data.duplicated(subset, keep="first") marks.
Duplicated(rows, subset) ==
    {i \in DOMAIN rows : \E j \in 1..(i - 1) : KeyOf(rows[j], subset) = KeyOf(rows[i], subset)}

\* Mutant: the rows are not sorted before the duplicates are dropped.
KeepFirstOfInput(rows, index_columns) ==
    LET merged == MergeFlagRanking(rows, 1)
        kept == SelectSeq([i \in DOMAIN merged |-> <<i, merged[i]>>],
                          LAMBDA p : p[1] \notin Duplicated(merged, index_columns))
    IN [i \in DOMAIN kept |-> [c \in DOMAIN kept[i][2] \ {"flag_ranking"} |-> kept[i][2][c]]]

\* remove_duplicates(data) on the rows of a frame with the given index columns.
remove_duplicates(rows, index_columns) ==
    LET merged == MergeFlagRanking(rows, 1)
        n_ambiguous_indices == Cardinality(Duplicated(merged, index_columns))
        sorted == SortRows(merged, index_columns \o <<"flag_ranking">>)
        kept == SelectSeq([i \in DOMAIN sorted |-> <<i, sorted[i]>>],
                          LAMBDA p : p[1] \notin Duplicated(sorted, index_columns))
        result == IF n_ambiguous_indices > 0
                  THEN [i \in DOMAIN kept |-> kept[i][2]]
                  ELSE merged
    IN [i \in DOMAIN result |-> [c \in DOMAIN result[i] \ {"flag_ranking"} |-> result[i][c]]]

\* Bound of the input of remove_duplicates.
MaxRows == 3

\* Input data: up to MaxRows rows of one country, numbered by their value,
\* with or without the column item; the flag "zz" is not in the ranking.
DuplicatesInputs ==
    LET flags == {NaN, Some("W"), Some("Fm"), Some("zz")}
        cells == [year : {2000, 2001}, item : {"Maize", "Wheat"}, flag : flags]
        row(cell, i, columns) ==
            [c \in {columns[k] : k \in DOMAIN columns} \cup {"flag", "value"} |->
                CASE c = "country" -> "Chile"
                  [] c = "value" -> i
                  [] OTHER -> cell[c]]
    IN {[index_columns |-> columns,
         rows |-> [i \in DOMAIN chosen |-> row(chosen[i], i, columns)]] :
            columns \in {<<"country", "year">>, <<"country", "year", "item">>},
            chosen \in UNION {[1..n -> cells] : n \in 0..MaxRows}}

InitDuplicates ==
    /\ pc = "remove_duplicates"
    /\ input \in DuplicatesInputs
    /\ output = <<>>
    /\ BpIdle
    /\ ChartsIdle

\* data = remove_duplicates(data) in clean_data
RemoveDuplicates ==
    /\ pc = "remove_duplicates"
    /\ output' = remove_duplicates(input.rows, input.index_columns)
    /\ pc' = "removed_duplicates"
    /\ UNCHANGED <<input, bp_vars, chart_vars>>

SpecDuplicates == InitDuplicates /\ [][RemoveDuplicates]_vars

\* The keys of the rows of a frame.
Keys(rows) == {KeyOf(rows[i], input.index_columns) : i \in DOMAIN rows}

\* C22: the result of remove_duplicates has exactly one row for each index
\* key of its input, none for any other key, and no more rows than the input.
C22_OneRowForEachKey ==
    pc = "removed_duplicates" =>
        /\ Keys(output) = Keys(input.rows)
        /\ Len(output) = Cardinality(Keys(input.rows))
        /\ Len(output) <= Len(input.rows)

\* C22 witness: the input has a single row for a key, with the flag "W" that
\* the ranking holds twice, and two rows, one with a flag that is not in the
\* ranking, for another key.
C22_Witness ==
    /\ pc = "removed_duplicates"
    /\ Len(input.rows) = 3
    /\ Len(output) = 2
    /\ \E i \in DOMAIN input.rows :
          /\ input.rows[i].flag = Some("W")
          /\ \A j \in DOMAIN input.rows \ {i} :
                KeyOf(input.rows[j], input.index_columns)
                    # KeyOf(input.rows[i], input.index_columns)
    /\ \E i \in DOMAIN input.rows : input.rows[i].flag = Some("zz")

\* The priority of a flag: its lowest position in FLAGS_RANKING, or the
\* length of the ranking for a flag it does not hold.
Priority(flag) ==
    LET positions == {k \in DOMAIN FLAGS_RANKING : FLAGS_RANKING[k] = flag}
    IN IF positions = {} THEN Len(FLAGS_RANKING) + 1
       ELSE CHOOSE k \in positions : \A other \in positions : k <= other

\* C23: every row of the result of remove_duplicates is a row of the input,
\* and no row of the input with the same index key has a flag of higher
\* priority; so a row whose flag is not in the ranking is kept only when
\* the flags of all rows of its key are not in the ranking.
C23_KeepsHighestPriorityFlag ==
    pc = "removed_duplicates" =>
        \A k \in DOMAIN output :
            \E i \in DOMAIN input.rows :
                /\ output[k] = input.rows[i]
                /\ \A j \in DOMAIN input.rows :
                      KeyOf(input.rows[j], input.index_columns)
                              = KeyOf(input.rows[i], input.index_columns)
                          => Priority(input.rows[i].flag) <= Priority(input.rows[j].flag)

\* C23 witness: of three rows of one key with the flags "Fm", "W" and one
\* that is not in the ranking, in this order, the row with "W" is kept.
C23_Witness ==
    /\ pc = "removed_duplicates"
    /\ Len(input.rows) = 3
    /\ input.rows[1].flag = Some("Fm")
    /\ input.rows[2].flag = Some("W")
    /\ input.rows[3].flag = Some("zz")
    /\ Len(output) = 1
    /\ output[1] = input.rows[2]

(***************************************************************************)
(* COW MID (etl/steps/data/garden/war/2023-08-05/cow_mid.py).              *)
(*                                                                         *)
(* A table is the set of its rows: every step after the merge of the two   *)
(* tables counts distinct disputes or looks for a null, so that a row      *)
(* that occurs twice changes nothing.  A region is NaN or <<name>>.        *)
(***************************************************************************)
FATALITY_LEVEL_MAP ==
    (0 :> "No deaths") @@ (1 :> "1-25 deaths") @@ (2 :> "26-100 deaths")
    @@ (3 :> "101-250 deaths") @@ (4 :> "251-500 deaths") @@ (5 :> "501-999 deaths")
    @@ (6 :> "> 999 deaths") @@ (-9 :> "Unknown")

\* add_regions: the region of a participant, from its country code.
CowRegion(ccode) ==
    CASE ccode >= 700 /\ ccode <= 990 -> Some("Asia")
      [] ccode >= 630 /\ ccode <= 698 -> Some("Middle East")
      [] ccode >= 400 /\ ccode <= 626 -> Some("Africa")
      [] ccode >= 200 /\ ccode <= 395 -> Some("Europe")
      [] ccode >= 1 /\ ccode <= 165 -> Some("Americas")
      [] OTHER -> NaN

\* expand_observations: the years from the first start to the last end, of
\* which every row keeps those between its own start and end.
YearsOfRow(tb, row) ==
    LET YEAR_MIN == CHOOSE y \in {r.styear : r \in tb} : \A r \in tb : y <= r.styear
        YEAR_MAX == CHOOSE y \in {r.endyear : r \in tb} : \A r \in tb : y >= r.endyear
    IN {year \in YEAR_MIN..YEAR_MAX : year >= row.styear /\ year <= row.endyear}

process_mida_table(tb) ==
    {[dispnum |-> row.dispnum, fatality |-> row.fatality, year |-> year] :
        <<row, year>> \in {p \in tb \X UNION {YearsOfRow(tb, r) : r \in tb} :
                              p[2] \in YearsOfRow(tb, p[1])}}

process_midb_table(tb) ==
    {[dispnum |-> row.dispnum, region |-> CowRegion(row.ccode), year |-> year] :
        <<row, year>> \in {p \in tb \X UNION {YearsOfRow(tb, r) : r \in tb} :
                              p[2] \in YearsOfRow(tb, p[1])}}

\* Mutant: only a row without a region gets the region written by hand.
FillRegionIfMissing(dispnum, region) ==
    CASE region # NaN -> region
      [] dispnum = 2044 -> Some("Americas")
      [] dispnum = 2328 -> Some("Europe")
      [] dispnum = 4005 -> Some("Asia")
      [] OTHER -> region

\* tb.loc[tb["dispnum"] == ..., "region"] = ... for the three disputes: the
\* region that every row of the dispute gets.
FillRegion(dispnum, region) ==
    CASE dispnum = 2044 -> Some("Americas")
      [] dispnum = 2328 -> Some("Europe")
      [] dispnum = 4005 -> Some("Asia")
      [] OTHER -> region

\* combine_tables: the table, or the assertion that failed.  The set of a
\* data frame is the set of its column names, which holds no dispute code:
\* dispnum_nans_unexpected is never empty and sanity check (1) always passes.
combine_tables(tb_a, tb_b) ==
    LET merged ==
            {[dispnum |-> a.dispnum, year |-> a.year, fatality |-> a.fatality,
              region |-> b.region] :
                <<a, b>> \in {p \in tb_a \X tb_b :
                                 p[1].dispnum = p[2].dispnum /\ p[1].year = p[2].year}}
            \cup {[dispnum |-> a.dispnum, year |-> a.year, fatality |-> a.fatality,
                   region |-> NaN] :
                     a \in {r \in tb_a : ~\E b \in tb_b :
                                r.dispnum = b.dispnum /\ r.year = b.year}}
        dispnum_nans_expected == {2044, 2328, 4005}
        dispnum_nans_unexpected == {"dispnum", "fatality", "year", "region"}
        groups == {b.dispnum : b \in tb_b} \cap dispnum_nans_expected
        nunique(dispnum) == Cardinality({b.region : b \in {r \in tb_b : r.dispnum = dispnum}})
        filled == {[row EXCEPT !.region = FillRegion(row.dispnum, row.region)] : row \in merged}
    IN IF dispnum_nans_unexpected = {}
       THEN [tb |-> {}, error |-> Some("AssertionError")]
       ELSE IF groups = {} \/ \E dispnum \in groups : nunique(dispnum) # 1
       THEN [tb |-> {}, error |-> Some("AssertionError")]
       ELSE IF \E row \in filled : row.region = NaN
       THEN [tb |-> {}, error |-> Some("AssertionError")]
       ELSE [tb |-> filled, error |-> None]

WORLD == "World"

\* estimate_metrics: the number of distinct disputes by year, fatality and
\* region, and by year and fatality for the World.
estimate_metrics(tb) ==
    LET count(rows) == Cardinality({row.dispnum : row \in rows})
    IN {[year |-> g[1], fatality |-> g[2], region |-> g[3],
         number_ongoing_disputes |->
             Some(count({row \in tb : <<row.year, row.fatality, row.region[1]>> = g}))] :
            g \in {<<row.year, row.fatality, row.region[1]>> : row \in tb}}
       \cup
       {[year |-> g[1], fatality |-> g[2], region |-> WORLD,
         number_ongoing_disputes |->
             Some(count({row \in tb : <<row.year, row.fatality>> = g}))] :
            g \in {<<row.year, row.fatality>> : row \in tb}}

\* tb["fatality"].map(FATALITY_LEVEL_MAP) and the suffix " (COW)" of every
\* region but the World: a published region is <<name>> or <<name, " (COW)">>.
NamedRows(tb) ==
    {[row EXCEPT !.fatality = FATALITY_LEVEL_MAP[row.fatality],
                 !.region = IF row.region # WORLD THEN <<row.region, " (COW)">>
                            ELSE <<row.region>>] : row \in tb}

\* Mutant: the combinations without a dispute get no row.
WithoutZeros(tb) == tb

\* replace_missing_data_with_zeros: a row for every year between the first
\* and the last, every region and every fatality of the table, with 0 where
\* the table had none.
replace_missing_data_with_zeros(tb) ==
    LET first == CHOOSE y \in {r.year : r \in tb} : \A r \in tb : y <= r.year
        last == CHOOSE y \in {r.year : r \in tb} : \A r \in tb : y >= r.year
        new_idx == (first..last) \X {r.region : r \in tb} \X {r.fatality : r \in tb}
        found(idx) == {r \in tb : <<r.year, r.region, r.fatality>> = idx}
    IN {[year |-> idx[1], region |-> idx[2], fatality |-> idx[3],
         number_ongoing_disputes |->
             IF found(idx) = {} THEN Some(0)
             ELSE (CHOOSE r \in found(idx) : TRUE).number_ongoing_disputes] :
            idx \in new_idx}

\* Bound of the input of the COW MID step: the years after the first one.
MaxSpan == 1

CowYears == 1990..(1990 + MaxSpan)

\* Input data.  MIDA holds dispute 2044, from the first year on, and dispute
\* 7; MIDB holds for dispute 2044 up to two participants, of Europe (code
\* 220) and, in the first year, of the Americas (code 2), and for dispute 7 a
\* participant of the Americas and possibly one of Europe.
CowInputs ==
    LET spans == {p \in CowYears \X CowYears : p[1] <= p[2]}
        first == 1990
        participant(dispnum, ccode, span) ==
            [dispnum |-> dispnum, ccode |-> ccode, styear |-> span[1], endyear |-> span[2]]
    IN {[mida |-> {[dispnum |-> 2044, styear |-> first, endyear |-> e, fatality |-> 1],
                   [dispnum |-> 7, styear |-> span[1], endyear |-> span[2],
                    fatality |-> fatality]},
         midb |-> {participant(2044, 220, p) : p \in p1}
                  \cup {participant(2044, 2, p) : p \in p2}
                  \cup {participant(7, 2, a)}
                  \cup {participant(7, 220, p) : p \in b}] :
            e \in CowYears, span \in spans, fatality \in {1, 6},
            p1 \in {{}} \cup {{p} : p \in spans}, p2 \in {{}, {<<first, first>>}},
            a \in spans, b \in {{}} \cup {{p} : p \in spans}}

InitCow ==
    /\ pc = "cow_mid"
    /\ input \in CowInputs
    /\ output = <<>>
    /\ BpIdle
    /\ ChartsIdle

\* tb_a = process_mida_table(tb_a); tb_b = process_midb_table(tb_b)
CowProcessTables ==
    /\ pc = "cow_mid"
    /\ output' = [tb_a |-> process_mida_table(input.mida),
                  tb_b |-> process_midb_table(input.midb)]
    /\ pc' = "processed"
    /\ UNCHANGED <<input, bp_vars, chart_vars>>

\* tb = combine_tables(tb_a, tb_b)
CowCombineTables ==
    /\ pc = "processed"
    /\ output' = combine_tables(output.tb_a, output.tb_b)
    /\ pc' = IF output'.error # None THEN "aborted" ELSE "combined"
    /\ UNCHANGED <<input, bp_vars, chart_vars>>

\* The rest of run: estimate_metrics, the names of the fatality levels and of
\* the regions, replace_missing_data_with_zeros and the index.
CowPublish ==
    /\ pc = "combined"
    /\ output' = [tb |-> replace_missing_data_with_zeros(NamedRows(estimate_metrics(output.tb))),
                  error |-> None]
    /\ pc' = "published"
    /\ UNCHANGED <<input, bp_vars, chart_vars>>

NextCow == CowProcessTables \/ CowCombineTables \/ CowPublish

SpecCow == InitCow /\ [][NextCow]_vars

\* The participants of a dispute that are active in a year.
Participants(dispnum, year) ==
    {p \in input.midb : p.dispnum = dispnum /\ p.styear <= year /\ year <= p.endyear}

\* The disputes that have a year with no participant: after the left merge
\* they have a row without a region.
Lacking ==
    {d.dispnum : d \in {m \in input.mida :
                          \E year \in m.styear..m.endyear :
                              Participants(m.dispnum, year) = {}}}

\* The regions MIDB has for a dispute.
RegionsInMidb(dispnum) ==
    {CowRegion(p.ccode) : p \in {q \in input.midb : q.dispnum = dispnum}}

\* combine_tables has returned a table without nulls, in which all rows of
\* the disputes 2044, 2328 and 4005 have the regions Americas, Europe and Asia.
FilledByHand ==
    /\ pc = "combined"
    /\ output.error = None
    /\ \A row \in output.tb :
          /\ row.region # NaN
          /\ row.dispnum = 2044 => row.region = Some("Americas")
          /\ row.dispnum = 2328 => row.region = Some("Europe")
          /\ row.dispnum = 4005 => row.region = Some("Asia")

\* C25 as stated: combine_tables raises an assertion error when a dispute
\* other than 2044, 2328 and 4005 lacks a region, and fills in the regions and
\* returns a table without nulls when only these three lack one.
C25_FillsWheneverOnlyExpectedLack ==
    pc \in {"combined", "aborted"} =>
        /\ Lacking \ {2044, 2328, 4005} # {} =>
              pc = "aborted" /\ output.error = Some("AssertionError")
        /\ (Lacking # {} /\ Lacking \subseteq {2044, 2328, 4005}) => FilledByHand

\* C25, amended: combine_tables raises an assertion error when a dispute other
\* than 2044, 2328 and 4005 lacks a region; when only these three lack one, it
\* fills in the regions and returns a table without nulls if MIDB holds at
\* least one of the three and a single region for each of them that it
\* holds, and raises an assertion error otherwise.
C25_FillsWhenMidbHasOneRegionForThem ==
    pc \in {"combined", "aborted"} =>
        /\ Lacking \ {2044, 2328, 4005} # {} =>
              pc = "aborted" /\ output.error = Some("AssertionError")
        /\ (Lacking # {} /\ Lacking \subseteq {2044, 2328, 4005}) =>
              LET held == {p.dispnum : p \in input.midb} \cap {2044, 2328, 4005}
              IN IF held # {} /\ \A d \in held : Cardinality(RegionsInMidb(d)) = 1
                 THEN FilledByHand
                 ELSE pc = "aborted" /\ output.error = Some("AssertionError")

\* C25 witness: dispute 2044 lacks a region in its last year and has a
\* participant of Europe in its first; all its rows have got the Americas.
C25_Witness ==
    /\ FilledByHand
    /\ Lacking = {2044}
    /\ RegionsInMidb(2044) = {Some("Europe")}
    /\ \E row \in output.tb : row.dispnum = 2044 /\ row.year = 1990

\* The disputes of a fatality level that are active in a year.
ActiveDisputes(year, fatality) ==
    {m \in input.mida :
        /\ FATALITY_LEVEL_MAP[m.fatality] = fatality
        /\ m.styear <= year /\ year <= m.endyear}

\* The disputes among them with a participant of the region active in the
\* year; for the World, with any participant active in the year.
WithParticipantOf(year, region, fatality) ==
    {m.dispnum : m \in {d \in ActiveDisputes(year, fatality) :
        \E p \in Participants(d.dispnum, year) :
            region = WORLD \/ CowRegion(p.ccode) = Some(region)}}

\* The disputes among them that the published table counts for the region:
\* the disputes 2044, 2328 and 4005 for the region written by hand, in every
\* year in which they are active, the others for the regions of their
\* participants active in the year; for the World, all of them.
CountedFor(year, region, fatality) ==
    {m.dispnum : m \in {d \in ActiveDisputes(year, fatality) :
        \/ region = WORLD
        \/ d.dispnum = 2044 /\ region = "Americas"
        \/ d.dispnum = 2328 /\ region = "Europe"
        \/ d.dispnum = 4005 /\ region = "Asia"
        \/ /\ d.dispnum \notin {2044, 2328, 4005}
           /\ \E p \in Participants(d.dispnum, year) : CowRegion(p.ccode) = Some(region)}}

\* The year, region and fatality combinations of the published table: every
\* year from its first to its last, with every region and fatality it holds.
Combinations ==
    LET years == {row.year : row \in output.tb}
    IN {y \in CowYears : \E a \in years : \E b \in years : a <= y /\ y <= b}
       \X {row.region : row \in output.tb} \X {row.fatality : row \in output.tb}

\* C24 as stated: the published table has one row for every combination, and
\* its number of ongoing disputes is the number of disputes of the fatality
\* level active in the year with a participant of the region active in it.
C24_CountsDisputesByParticipants ==
    pc = "published" =>
        \A c \in Combinations :
            \E row \in output.tb :
                /\ <<row.year, row.region, row.fatality>> = c
                /\ row.number_ongoing_disputes
                       = Some(Cardinality(WithParticipantOf(c[1], c[2][1], c[3])))

\* C24, amended: the published table has exactly one row for every
\* combination, and its number of ongoing disputes is the number of disputes
\* of the fatality level active in the year that are counted for the region:
\* a dispute other than 2044, 2328 and 4005 for the regions of its
\* participants active in the year, the disputes 2044, 2328 and 4005 for the
\* one region written by hand (Americas, Europe, Asia) and for no other, and
\* for the World all disputes of the level active in the year; it is 0 where
\* there is none.
C24_CountsDisputesWithManualRegions ==
    pc = "published" =>
        /\ \A c \in Combinations :
              \E row \in output.tb :
                  /\ <<row.year, row.region, row.fatality>> = c
                  /\ row.number_ongoing_disputes
                         = Some(Cardinality(CountedFor(c[1], c[2][1], c[3])))
        /\ Cardinality(output.tb) = Cardinality(Combinations)

\* C24 witness: the published table counts dispute 2044 for the Americas in a
\* year in which its only participant is of Europe, holds a zero, and counts
\* two disputes of one level once each for the World.
C24_Witness ==
    /\ pc = "published"
    /\ \E row \in output.tb :
          /\ row.region = <<"Americas", " (COW)">>
          /\ row.number_ongoing_disputes # Some(0)
          /\ \A p \in Participants(2044, row.year) : CowRegion(p.ccode) = Some("Europe")
          /\ Participants(2044, row.year) # {}
          /\ Participants(7, row.year) = {}
    /\ \E row \in output.tb : row.number_ongoing_disputes = Some(0)
    /\ \E row \in output.tb : row.region = <<WORLD>> /\ row.number_ongoing_disputes = Some(2)

(***************************************************************************)
(* Life tables (etl/steps/data/garden/demography/2023-10-03/               *)
(* life_tables.py): combine_tables.                                        *)
(*                                                                         *)
(* A table is the sequence of its rows; a row has the index columns, for   *)
(* HMD its format, and the function vals from its indicator columns to     *)
(* cells.                                                                  *)
(***************************************************************************)
COLUMNS_INDICATORS ==
    {"central_death_rate", "probability_of_death", "probability_of_survival",
     "number_survivors", "number_deaths", "number_person_years_lived",
     "survivorship_ratio", "number_person_years_remaining", "life_expectancy",
     "average_survival_length"}

\* Mutant: all rows of HMD are kept.
KeptFromHmdAnyYear(row) == TRUE

\* The rows of HMD that are kept: period data before 1950 and cohort data.
KeptFromHmd(row) ==
    (row.year < 1950 /\ row.type = "period") \/ row.type = "cohort"

\* The years of a table in the order of their first occurrence.
RECURSIVE DistinctYears(_, _)
DistinctYears(tb, seen) ==
    IF tb = <<>> THEN <<>>
    ELSE (IF Head(tb).year \in seen THEN <<>> ELSE <<Head(tb).year>>)
         \o DistinctYears(Tail(tb), seen \cup {Head(tb).year})

\* combine_tables(tb_hmd, tb_un) of life_tables.py: its tables tb_hmd and
\* tb_un when it concatenates them, and the table it returns, or the
\* assertion that failed.
life_tables_combine_tables(hmd, un) ==
    LET hmd_1x1 == SelectSeq(hmd, LAMBDA row : row.format = "1x1")
        years(tb) == {tb[i].year : i \in DOMAIN tb}
        max(tb) == CHOOSE y \in years(tb) : \A other \in years(tb) : y >= other
        min(tb) == CHOOSE y \in years(tb) : \A other \in years(tb) : y <= other
        kept == SelectSeq(hmd_1x1, KeptFromHmd)
        with(row, type, location) ==
            [type |-> type, location |-> location, year |-> row.year,
             sex |-> row.sex, age |-> row.age,
             vals |-> [c \in COLUMNS_INDICATORS |->
                          IF c \in DOMAIN row.vals THEN row.vals[c] ELSE NaN]]
        tb_hmd == [i \in DOMAIN kept |-> with(kept[i], kept[i].type, kept[i].country)]
        tb_un == [i \in DOMAIN un |-> with(un[i], "period", un[i].location)]
        yearly == LET distinct == DistinctYears(un, {})
                  IN \A i \in 2..Len(distinct) : distinct[i] - distinct[i - 1] = 1
        failed == [tb_hmd |-> <<>>, tb_un |-> <<>>, tb |-> <<>>,
                   error |-> Some("AssertionError")]
    IN IF hmd_1x1 = <<>> \/ max(hmd_1x1) # 2022 \/ min(hmd_1x1) # 1676 THEN failed
       ELSE IF un = <<>> \/ max(un) # 2021 \/ min(un) # 1950 \/ ~yearly THEN failed
       ELSE [tb_hmd |-> tb_hmd, tb_un |-> tb_un,
             tb |-> SelectSeq(tb_hmd \o tb_un,
                              LAMBDA row : \E c \in COLUMNS_INDICATORS : row.vals[c] # NaN),
             error |-> None]

\* Input data.  HMD has two indicators, with the value 1, in rows of Japan
\* for 1676 and 2022 and in any of six further rows; UN has all
\* indicators, with the value 2, in one row of Japan for every year from 1950
\* to its last year, but for a year that may be left out.  A row may hold
\* nulls only.
LifeInputs ==
    LET hmdRow(format, type, year, cell) ==
            [format |-> format, type |-> type, country |-> "Japan", year |-> year,
             sex |-> "both", age |-> 0,
             vals |-> [c \in {"life_expectancy", "central_death_rate"} |-> cell]]
        unRow(year, cell) ==
            [location |-> "Japan", year |-> year, sex |-> "both", age |-> 0,
             vals |-> [c \in COLUMNS_INDICATORS |-> cell]]
        further == <<hmdRow("1x1", "period", 1949, Some(1)),
                     hmdRow("1x1", "period", 1949, NaN),
                     hmdRow("1x1", "period", 1950, Some(1)),
                     hmdRow("1x1", "cohort", 1950, Some(1)),
                     hmdRow("5x1", "period", 1950, Some(1)),
                     hmdRow("5x1", "period", 1948, Some(1))>>
        RECURSIVE unRows(_, _, _, _)
        unRows(year, last, gap, null) ==
            IF year > last THEN <<>>
            ELSE (IF year = gap THEN <<>>
                  ELSE <<unRow(year, IF year = null THEN NaN ELSE Some(2))>>)
                 \o unRows(year + 1, last, gap, null)
    IN {[hmd |-> <<hmdRow("1x1", "period", 1676, Some(1))>>
                 \o SelectSeq(further, LAMBDA row : row \in chosen)
                 \o <<hmdRow("1x1", type, 2022, Some(1))>>,
         un |-> unRows(1950, last, gap, null)] :
            chosen \in SUBSET {further[i] : i \in DOMAIN further},
            type \in {"period", "cohort"},
            last \in {2021, 2022}, gap \in {0, 1960}, null \in {0, 1950}}

InitLife ==
    /\ pc = "life_tables"
    /\ input \in LifeInputs
    /\ output = <<>>
    /\ BpIdle
    /\ ChartsIdle

\* tb = combine_tables(tb_hmd, tb_un)
CombineLifeTables ==
    /\ pc = "life_tables"
    /\ output' = life_tables_combine_tables(input.hmd, input.un)
    /\ pc' = IF output'.error # None THEN "aborted" ELSE "combined"
    /\ UNCHANGED <<input, bp_vars, chart_vars>>

SpecLife == InitLife /\ [][CombineLifeTables]_vars

\* The index key of a row.
LifeKey(row) == <<row.type, row.location, row.year, row.sex, row.age>>

\* C26: when combine_tables of the life tables has returned, every row of its
\* table is a row of tb_hmd or of tb_un; a period row before 1950 is the row
\* of a 1x1 row of HMD and no row of UN; a period row of 1950 or later is a
\* row of UN and not one that HMD contributes; HMD contributes no period row
\* of 1950 or later; no key is in both tb_hmd and tb_un; and no row has
\* nulls in all indicator columns.
C26_HmdBefore1950UnAfter ==
    (pc = "combined" /\ output.error = None) =>
        LET fromHmd == {output.tb_hmd[i] : i \in DOMAIN output.tb_hmd}
            fromUn == {output.tb_un[i] : i \in DOMAIN output.tb_un}
        IN /\ \A i \in DOMAIN output.tb :
                 LET row == output.tb[i]
                 IN /\ row \in fromHmd \cup fromUn
                    /\ (row.type = "period" /\ row.year < 1950) =>
                          /\ row \notin fromUn
                          /\ \E k \in DOMAIN input.hmd :
                                /\ input.hmd[k].format = "1x1"
                                /\ input.hmd[k].year = row.year
                                /\ input.hmd[k].type = row.type
                                /\ input.hmd[k].vals["life_expectancy"]
                                       = row.vals["life_expectancy"]
                    /\ (row.type = "period" /\ row.year >= 1950) =>
                          row \in fromUn /\ row \notin fromHmd
                    /\ \E c \in COLUMNS_INDICATORS : row.vals[c] # NaN
           /\ \A row \in fromHmd : ~(row.type = "period" /\ row.year >= 1950)
           /\ {LifeKey(row) : row \in fromHmd} \cap {LifeKey(row) : row \in fromUn} = {}

\* C26 witness: HMD has 1x1 period rows for 1949, 1950 and 2022 and rows of
\* another format for 1948 and 1950; the table holds the row of 1949 from HMD,
\* no row of 1948, the rows of 1951 and 2021 from UN, and not the row of UN
\* for 1950, which has nulls only.
C26_Witness ==
    /\ pc = "combined"
    /\ output.error = None
    /\ \E k \in DOMAIN input.hmd :
          input.hmd[k].year = 1950 /\ input.hmd[k].type = "period"
          /\ input.hmd[k].format = "1x1"
    /\ \E k \in DOMAIN input.hmd : input.hmd[k].format = "5x1" /\ input.hmd[k].year = 1950
    /\ \E k \in DOMAIN input.hmd : input.hmd[k].format = "5x1" /\ input.hmd[k].year = 1948
    /\ ~\E i \in DOMAIN output.tb : output.tb[i].year = 1948
    /\ input.hmd[Len(input.hmd)].type = "period"
    /\ \E i \in DOMAIN output.tb :
          /\ output.tb[i].year = 1949
          /\ output.tb[i].vals["life_expectancy"] = Some(1)
    /\ \E i \in DOMAIN output.tb :
          /\ output.tb[i].year = 2021
          /\ output.tb[i].vals["life_expectancy"] = Some(2)
    /\ ~\E i \in DOMAIN output.tb : output.tb[i].year = 1950 /\ output.tb[i].type = "period"

(***************************************************************************)
(* UN SDG (etl/steps/data/meadow/un_sdg/2022-05-26/un_sdg.py):             *)
(* generate_tables_for_indicator_and_series.                               *)
(*                                                                         *)
(* A row of the series has an id, which stands for its columns that are    *)
(* no dimensions, and the function dims from the dimensions to the code    *)
(* of the row, NaN or <<code>>.  The result maps a combination, the tuple  *)
(* of one description for each relevant dimension, to its table.           *)
(***************************************************************************)
\* The values of a column in the order of their first occurrence.
RECURSIVE Uniques(_, _, _)
Uniques(rows, column, seen) ==
    IF rows = <<>> THEN <<>>
    ELSE LET value == Head(rows).dims[column]
         IN (IF value \in seen THEN <<>> ELSE <<value>>)
            \o Uniques(Tail(rows), column, seen \cup {value})

\* get_series_with_relevant_dimensions: the dimensions with a value that is
\* not null and with more than one value.
get_series_with_relevant_dimensions(data_series, init_dimensions) ==
    SelectSeq(init_dimensions, LAMBDA c :
        /\ \E i \in DOMAIN data_series : data_series[i].dims[c] # NaN
        /\ Len(Uniques(data_series, c, {})) > 1)

\* Mutant: the tables of all combinations are returned.
EmptyOrNot(tb) == TRUE

\* not v.empty
NotEmpty(tb) == tb # <<>>

\* generate_tables_for_indicator_and_series: the relevant dimensions and the
\* tables by combination, or the data cut to the columns that are no
\* dimensions when no dimension is relevant, or the error raised.  value_is_nan is always false (it compares a bool with the
\* type float), so every dimension is filtered by equality with the
\* description, which is "" for a null.
generate_tables_for_indicator_and_series(data_series, init_dimensions, dim_dict) ==
    LET dimensions == get_series_with_relevant_dimensions(data_series, init_dimensions)
        selected == SelectSeq(dim_dict, LAMBDA d : \E k \in DOMAIN dimensions : dimensions[k] = d.id)
        codes == {selected[k].code[1] : k \in {j \in DOMAIN selected : selected[j].code # NaN}}
        dim_desc == [code \in codes \cup {"nan", "None"} |->
                        IF code \in codes
                        THEN selected[CHOOSE k \in DOMAIN selected :
                                 /\ selected[k].code = Some(code)
                                 /\ \A j \in DOMAIN selected :
                                       selected[j].code = Some(code) => j <= k].description
                        ELSE ""]
        str(value) == IF value = NaN THEN "nan" ELSE value[1]
        described(row, dim) == dim_desc[str(row.dims[dim])]
        combination(row) == [k \in DOMAIN dimensions |-> described(row, dimensions[k])]
        dimension_values == [k \in DOMAIN dimensions |->
                                {dim_desc[str(v)] : v \in Range(Uniques(data_series, dimensions[k], {}))}]
        product == {c \in [DOMAIN dimensions -> UNION Range(dimension_values)] :
                       \A k \in DOMAIN dimensions : c[k] \in dimension_values[k]}
        tableOf(c) == LET rows == SelectSeq(data_series, LAMBDA row : combination(row) = c)
                      IN [i \in DOMAIN rows |-> [id |-> rows[i].id]]
    IN IF dimensions = <<>>
       THEN [dimensions |-> dimensions,
             export |-> [i \in DOMAIN data_series |-> [id |-> data_series[i].id]],
             tables |-> <<>>, error |-> None]
       ELSE IF \E k \in DOMAIN dimensions : \A j \in DOMAIN dim_dict : dim_dict[j].id # dimensions[k]
       THEN [dimensions |-> dimensions, export |-> <<>>, tables |-> <<>>, error |-> Some("KeyError")]
       ELSE IF Len(selected) = 1
       THEN [dimensions |-> dimensions, export |-> <<>>, tables |-> <<>>,
             error |-> Some("AttributeError")]
       ELSE IF \E i \in DOMAIN data_series : \E k \in DOMAIN dimensions :
                   str(data_series[i].dims[dimensions[k]]) \notin DOMAIN dim_desc
       THEN [dimensions |-> dimensions, export |-> <<>>, tables |-> <<>>, error |-> Some("KeyError")]
       ELSE [dimensions |-> dimensions, export |-> <<>>,
             tables |-> [c \in {x \in product : NotEmpty(tableOf(x))} |-> tableOf(c)],
             error |-> None]

\* Bound of the input of generate_tables_for_indicator_and_series.
MaxSeries == 3

\* Input data: the dimensions sex and age with their descriptions, of which
\* "Female" has two codes, and with the row of the null code that the
\* dimension dictionary has for every dimension; up to MaxSeries rows, whose
\* codes may be null or, for sex, unknown to the dictionary.
SdgInputs ==
    LET entry(id, code, description) == [id |-> id, code |-> code, description |-> description]
        dim_dict == <<entry("sex", Some("F"), "Female"), entry("sex", Some("FEMALE"), "Female"),
                      entry("sex", Some("M"), "Male"), entry("age", Some("ALL"), "All ages"),
                      entry("age", Some("Y15"), "15 years and over"),
                      entry("sex", NaN, ""), entry("age", NaN, "")>>
        cells == [sex : {NaN, Some("F"), Some("FEMALE"), Some("M"), Some("UNKNOWN")},
                  age : {NaN, Some("ALL"), Some("Y15")}]
    IN {[init_dimensions |-> <<"sex", "age">>, dim_dict |-> dim_dict,
         data_series |-> [i \in DOMAIN chosen |-> [id |-> i, dims |-> chosen[i]]]] :
            chosen \in UNION {[1..n -> cells] : n \in 0..MaxSeries}}

InitSdg ==
    /\ pc = "un_sdg"
    /\ input \in SdgInputs
    /\ output = <<>>
    /\ BpIdle
    /\ ChartsIdle

\* table = generate_tables_for_indicator_and_series(df_group, init_dimensions,
\* init_non_dimensions, dim_description)
GenerateTables ==
    /\ pc = "un_sdg"
    /\ output' = generate_tables_for_indicator_and_series(
                     input.data_series, input.init_dimensions, input.dim_dict)
    /\ pc' = IF output'.error # None THEN "aborted" ELSE "generated"
    /\ UNCHANGED <<input, bp_vars, chart_vars>>

SpecSdg == InitSdg /\ [][GenerateTables]_vars

\* The places a row of the series has in the returned tables.
PlacesOf(id) ==
    {<<c, k>> \in (DOMAIN output.tables) \X (1..Len(input.data_series)) :
        k <= Len(output.tables[c]) /\ output.tables[c][k].id = id}

\* C27: when generate_tables_for_indicator_and_series has returned for a
\* series with a relevant dimension, every row of the series is in exactly
\* one place of one returned table, every row of a returned table is a row of
\* the series, and no returned table is empty.
C27_TablesPartitionTheSeries ==
    (pc = "generated" /\ output.dimensions # <<>>) =>
        /\ \A i \in DOMAIN input.data_series :
              Cardinality(PlacesOf(input.data_series[i].id)) = 1
        /\ \A c \in DOMAIN output.tables :
              /\ output.tables[c] # <<>>
              /\ \A k \in DOMAIN output.tables[c] :
                    \E i \in DOMAIN input.data_series :
                        input.data_series[i].id = output.tables[c][k].id

\* C27 witness: sex and age are relevant; two rows with the two codes of
\* "Female" are in one table, a row without a sex is in another, and there is
\* no table for a combination without a row.
C27_Witness ==
    /\ pc = "generated"
    /\ Len(output.dimensions) = 2
    /\ Len(input.data_series) = 3
    /\ input.data_series[1].dims.sex = Some("F")
    /\ input.data_series[2].dims.sex = Some("FEMALE")
    /\ input.data_series[3].dims.sex = NaN
    /\ input.data_series[1].dims.age = input.data_series[2].dims.age
    /\ input.data_series[3].dims.age = Some("Y15")
    /\ Cardinality(DOMAIN output.tables) = 2
    /\ \E c \in DOMAIN output.tables : Len(output.tables[c]) = 2

(***************************************************************************)
(* Chart diff app: filter_chart_diffs.                                     *)
(*                                                                         *)
(* A string is the sequence of its characters.  A query parameter is None  *)
(* when it is absent and <<its value or values>> when it is present.       *)
(* chart_diffs and chart_diffs_filtered are the sequences of the values of *)
(* the dictionaries, whose keys are the chart ids.                         *)
(***************************************************************************)
\* _slugs_match: both slugs, in lower case and split at every run of commas,
\* white space and hyphens, have a part in common.
slugs_match(chart_slug_1, chart_slug_2) ==
    LET lower(char) == CASE char = "A" -> "a" [] char = "B" -> "b" [] OTHER -> char
        RECURSIVE split(_, _, _)
        split(string, part, separated) ==
            IF string = <<>> THEN {part}
            ELSE IF Head(string) \in {",", " ", "-"}
            THEN (IF separated THEN {} ELSE {part}) \cup split(Tail(string), <<>>, TRUE)
            ELSE split(Tail(string), Append(part, lower(Head(string))), FALSE)
    IN split(chart_slug_1, <<>>, FALSE) \cap split(chart_slug_2, <<>>, FALSE) # {}

\* Mutant: any query parameter counts as a filter.
AnyParameter(query_params) == \E key \in DOMAIN query_params : query_params[key] # None

\* The value filter_chart_diffs returns.
FilterApplied(query_params) ==
    \/ query_params.chart_id # None
    \/ query_params.chart_slug # None
    \/ query_params.change_type # None

\* filter_chart_diffs: the filters of the query parameters, one after the
\* other, on chart_diffs_filtered, and the value returned.
filter_chart_diffs(chart_diffs_filtered, query_params) ==
    LET by_id == IF query_params.chart_id = None THEN chart_diffs_filtered
                 ELSE SelectSeq(chart_diffs_filtered, LAMBDA v :
                          v.chart_id \in Range(query_params.chart_id[1]))
        by_slug == IF query_params.chart_slug = None THEN by_id
                   ELSE SelectSeq(by_id, LAMBDA v :
                            slugs_match(query_params.chart_slug[1], v.slug))
        not_reviewed == IF query_params.hide_reviewed = None THEN by_slug
                        ELSE SelectSeq(by_slug, LAMBDA v : ~v.is_reviewed)
        by_change == IF query_params.change_type = None THEN not_reviewed
                     ELSE SelectSeq(not_reviewed, LAMBDA v :
                              \/ v.is_modified /\ "modified" \in Range(query_params.change_type[1])
                              \/ v.is_new /\ "new" \in Range(query_params.change_type[1]))
    IN [chart_diffs_filtered |-> by_change, returned |-> FilterApplied(query_params)]

\* Bound of the input of filter_chart_diffs: the number of chart diffs.
MaxDiffs == 2

\* Input data: up to MaxDiffs chart diffs, numbered from 1, new or modified,
\* reviewed or not, with the slugs "a-b", "B" and "-c", and the query
\* parameters.
FilterInputs ==
    LET diffs == [slug : {<<"a", "-", "b">>, <<"B">>, <<"-", "c">>},
                  is_reviewed : BOOLEAN, is_new : BOOLEAN]
    IN {[chart_diffs |-> [i \in DOMAIN chosen |->
                            [chart_id |-> i, slug |-> chosen[i].slug,
                             is_reviewed |-> chosen[i].is_reviewed,
                             is_new |-> chosen[i].is_new,
                             is_modified |-> ~chosen[i].is_new]],
         query_params |-> query_params] :
            chosen \in UNION {[1..n -> diffs] : n \in 1..MaxDiffs},
            query_params \in [chart_id : {None, Some(<<1>>)},
                              chart_slug : {None, Some(<<"b">>), Some(<<>>)},
                              hide_reviewed : {None, Some(<<>>)},
                              change_type : {None, Some(<<"new">>),
                                             Some(<<"modified", "new">>)}]}

\* The state after get_chart_diffs: chart_diffs_filtered is chart_diffs.
InitFilter ==
    /\ pc = "filter_chart_diffs"
    /\ input \in FilterInputs
    /\ output = [chart_diffs_filtered |-> input.chart_diffs, returned |-> FALSE]
    /\ BpIdle
    /\ ChartsIdle

\* _ = filter_chart_diffs()
FilterChartDiffs ==
    /\ pc = "filter_chart_diffs"
    /\ output' = filter_chart_diffs(output.chart_diffs_filtered, input.query_params)
    /\ pc' = "filtered"
    /\ UNCHANGED <<input, bp_vars, chart_vars>>

SpecFilter == InitFilter /\ [][FilterChartDiffs]_vars

\* A chart diff satisfies every filter that is present in the query parameters.
Satisfies(v, query_params) ==
    /\ query_params.chart_id # None =>
          \E k \in DOMAIN query_params.chart_id[1] : query_params.chart_id[1][k] = v.chart_id
    /\ query_params.chart_slug # None => slugs_match(query_params.chart_slug[1], v.slug)
    /\ query_params.hide_reviewed # None => ~v.is_reviewed
    /\ query_params.change_type # None =>
          \E k \in DOMAIN query_params.change_type[1] :
              \/ query_params.change_type[1][k] = "modified" /\ v.is_modified
              \/ query_params.change_type[1][k] = "new" /\ v.is_new

\* C28: after filter_chart_diffs, chart_diffs_filtered holds exactly the
\* chart diffs of chart_diffs that satisfy every filter present in the query
\* parameters, each once; and the function has returned True exactly when
\* chart_id, chart_slug or change_type is present.
C28_FilteredSatisfyAllFilters ==
    pc = "filtered" =>
        /\ \A i \in DOMAIN input.chart_diffs :
              Cardinality({k \in DOMAIN output.chart_diffs_filtered :
                              output.chart_diffs_filtered[k] = input.chart_diffs[i]})
                  = IF Satisfies(input.chart_diffs[i], input.query_params) THEN 1 ELSE 0
        /\ \A k \in DOMAIN output.chart_diffs_filtered :
              \E i \in DOMAIN input.chart_diffs :
                  output.chart_diffs_filtered[k] = input.chart_diffs[i]
        /\ output.returned <=>
              (\/ input.query_params.chart_id # None
               \/ input.query_params.chart_slug # None
               \/ input.query_params.change_type # None)

\* C28 witness: hide_reviewed is the only query parameter; a reviewed chart
\* diff has been filtered out, another one is kept, and the function has
\* returned False.
C28_Witness ==
    /\ pc = "filtered"
    /\ input.query_params.hide_reviewed # None
    /\ input.query_params.chart_id = None
    /\ input.query_params.chart_slug = None
    /\ input.query_params.change_type = None
    /\ Len(input.chart_diffs) = 2
    /\ Len(output.chart_diffs_filtered) = 1
    /\ ~output.returned

(***************************************************************************)
(* Region membership: load_countries_in_regions called twice with the same *)
(* mapping tables.                                                         *)
(***************************************************************************)
\* Bound of the mapping tables: the number of rows of wb_income_group.
MaxIncomeRows == 2

\* Input data: the table of income groups, in which a country may have two
\* rows and the USSR may have one, and the table of countries and regions
\* with the members of Europe in one of two orders, or without Europe.
MembershipInputs ==
    LET rows == [country : {"Russia", "Ukraine", "USSR"},
                 income_group : {"Upper-middle-income countries",
                                 "Lower-middle-income countries"}]
        continents == {"North America", "South America", "Africa", "Asia", "Oceania"}
        with(europe) == [continent \in continents \cup {"Europe"} |->
                            IF continent = "Europe" THEN europe ELSE <<>>]
    IN {[wb_income_group |-> wb, countries_regions |-> countries_regions] :
            wb \in UNION {[1..n -> rows] : n \in 0..MaxIncomeRows},
            countries_regions \in {with(<<"Russia", "USSR", "Ukraine">>),
                                   with(<<"Ukraine", "Russia">>),
                                   [continent \in continents |-> <<>>]}}

InitMembership ==
    /\ pc = "membership"
    /\ input \in MembershipInputs
    /\ output = <<>>
    /\ BpIdle
    /\ ChartsIdle

\* countries_in_regions = load_countries_in_regions()
LoadCountriesInRegions ==
    /\ pc = "membership"
    /\ output' = <<load_countries_in_regions(input.wb_income_group, input.countries_regions)>>
    /\ pc' = "resolved"
    /\ UNCHANGED <<input, bp_vars, chart_vars>>

\* A second call, with the same mapping tables.
LoadCountriesInRegionsAgain ==
    /\ pc = "resolved"
    /\ output' = Append(output, load_countries_in_regions(input.wb_income_group,
                                                          input.countries_regions))
    /\ pc' = "resolved_again"
    /\ UNCHANGED <<input, bp_vars, chart_vars>>

NextMembership == LoadCountriesInRegions \/ LoadCountriesInRegionsAgain

SpecMembership == InitMembership /\ [][NextMembership]_vars

\* The rows of the table of income groups followed by the rows of the
\* historical regions, in the order of their declaration.
IncomeRowsOf(region) ==
    LET historic == [k \in DOMAIN HISTORIC_TO_CURRENT_REGION |->
                        [country |-> HISTORIC_TO_CURRENT_REGION[k].region,
                         income_group |-> HISTORIC_TO_CURRENT_REGION[k].income_group]]
    IN SelectSeq(input.wb_income_group \o historic, LAMBDA row : row.income_group = region)

\* The list is the default list of the region: for a continent of the table
\* of countries and regions its members there; for another region the
\* countries of its rows of income groups, each once, in the order of their
\* first rows.
IsDefaultList(list, region) ==
    IF region \in DOMAIN input.countries_regions
    THEN list = input.countries_regions[region]
    ELSE LET rows == IncomeRowsOf(region)
             first(country) == CHOOSE k \in DOMAIN rows :
                                   /\ rows[k].country = country
                                   /\ \A j \in DOMAIN rows : rows[j].country = country => k <= j
         IN /\ {list[i] : i \in DOMAIN list} = {rows[k].country : k \in DOMAIN rows}
            /\ \A i, j \in DOMAIN list : i < j => first(list[i]) < first(list[j])

\* The additional countries declared for the region, in their declared order.
DeclaredAdditional(region) ==
    LET declared == {k \in DOMAIN ADDITIONAL_COUNTRIES_IN_REGIONS :
                        ADDITIONAL_COUNTRIES_IN_REGIONS[k].region = region}
    IN IF declared = {} THEN <<>>
       ELSE ADDITIONAL_COUNTRIES_IN_REGIONS[CHOOSE k \in declared : TRUE].countries

\* C17: two calls of load_countries_in_regions with the same mapping tables
\* return the same dictionary, which has for every region of REGIONS_TO_ADD
\* the default list of the region followed by the region's
\* ADDITIONAL_COUNTRIES_IN_REGIONS entries in their declared order.
C17_MembershipIsDefaultThenAdditional ==
    pc = "resolved_again" =>
        /\ output[1] = output[2]
        /\ DOMAIN output[1] = RegionNames
        /\ \A region \in RegionNames :
              LET list == output[1][region]
                  additional == DeclaredAdditional(region)
                  default == Len(list) - Len(additional)
              IN /\ default >= 0
                 /\ IsDefaultList(SubSeq(list, 1, default), region)
                 /\ SubSeq(list, default + 1, Len(list)) = additional

\* C17 witness: both calls have returned; the table of income groups has the
\* USSR before Russia, the table of countries and regions has Ukraine before
\* Russia, and the lists have these orders, with the USSR once and Europe's
\* additional country at its end.
C17_Witness ==
    /\ pc = "resolved_again"
    /\ output[2]["Upper-middle-income countries"] = <<"USSR", "Russia">>
    /\ output[2]["Europe"] = <<"Ukraine", "Russia", "Other Europe (BP)">>
    /\ output[2]["Asia"] = ADDITIONAL_COUNTRIES_IN_REGIONS[2].countries

(***************************************************************************)
(* SpecRuns: the run function of every step, from the checks of its        *)
(* processing to the writes of its dataset.  The run of the BP step is the *)
(* one of Next.  The run of another step is the sequence of the statements *)
(* of its run function that check the data or the metadata or write the    *)
(* dataset, in the order of the source; input holds the step, the index    *)
(* keys of the rows of each table it has prepared, the columns and the     *)
(* number of rows of the metadata of the dataset, and the assertions of    *)
(* the run that the data fail; output holds the statements executed so     *)
(* far.                                                                    *)
(***************************************************************************)
MaxTableRows == 2

MaxMetadataRows == 2

TITLE == "owid_dataset_title"

DESCRIPTION == "owid_dataset_description"

\* A statement of a run: what it does, and the table or the metadata column it
\* does it with (0 and "" for none).
Statement(op, tb, column) == [op |-> op, table |-> tb, column |-> column]

\* run of garden/faostat/2022-05-17/shared.py: clean_data with its assertions,
\* prepare_long_table, the title for prepare_wide_table, prepare_wide_table
\* (the pivot of the data, the assertions on the units, descriptions and
\* display names of every variable, the index of the wide table), then
\* create_empty, the description and the title of the dataset, save, and the
\* two tables added one after the other.
faostat_run ==
    <<Statement("assert", 0, ""), Statement("set_index", 1, ""),
      Statement("item", 0, TITLE), Statement("pivot", 1, ""),
      Statement("assert", 2, ""), Statement("set_index", 2, ""),
      Statement("create_empty", 0, ""), Statement("item", 0, DESCRIPTION),
      Statement("item", 0, TITLE), Statement("save", 0, ""),
      Statement("add", 1, ""), Statement("add", 2, "")>>

\* run of garden/faostat/2023-02-22/faostat_qcl.py: the processing with its
\* assertions, the long and the wide table, their titles, create_dataset with
\* both tables, the description and the title of the dataset, save.
faostat_qcl_run ==
    <<Statement("assert", 0, ""), Statement("set_index", 1, ""),
      Statement("set_index", 2, ""), Statement("getitem", 0, TITLE),
      Statement("getitem", 0, TITLE), Statement("create_dataset", 0, ""),
      Statement("getitem", 0, DESCRIPTION), Statement("getitem", 0, TITLE),
      Statement("save", 0, "")>>

\* run of meadow/un_sdg/2022-05-26/un_sdg.py: the assertions, the index with
\* verify_integrity, create_empty, add, save.
un_sdg_run ==
    <<Statement("assert", 0, ""), Statement("set_index", 1, ""),
      Statement("create_empty", 0, ""), Statement("add", 1, ""),
      Statement("save", 0, "")>>

\* run of garden/war/2023-08-05/cow_mid.py: the assertions of the processing,
\* the index set in replace_missing_data_with_zeros and the one set in run,
\* create_dataset, save.
cow_mid_run ==
    <<Statement("assert", 0, ""), Statement("set_index", 1, ""),
      Statement("set_index", 1, ""), Statement("create_dataset", 0, ""),
      Statement("save", 0, "")>>

\* run of garden/demography/2023-10-03/life_tables.py: combine_tables with its
\* assertions, the index, create_dataset, save.
life_tables_run ==
    <<Statement("assert", 0, ""), Statement("set_index", 1, ""),
      Statement("create_dataset", 0, ""), Statement("save", 0, "")>>

\* run of garden/artificial_intelligence/2024-06-28/ai_phds.py: the pivot,
\* Table.format, which sets the index with verify_integrity, create_dataset,
\* save.
ai_phds_run ==
    <<Statement("pivot", 1, ""), Statement("set_index", 1, ""),
      Statement("create_dataset", 0, ""), Statement("save", 0, "")>>

\* run of grapher/smoking/2024-05-30/cigarette_sales.py
cigarette_sales_run ==
    <<Statement("set_index", 1, ""), Statement("create_dataset", 0, ""),
      Statement("save", 0, "")>>

\* run of meadow/democracy/2024-05-01/ert.py
ert_run ==
    <<Statement("set_index", 1, ""), Statement("create_dataset", 0, ""),
      Statement("save", 0, "")>>

\* run of garden/energy_institute/2023-06-26/statistical_review_of_world_energy.py:
\* the table of the meadow dataset keeps its index.
statistical_review_of_world_energy_run ==
    <<Statement("create_dataset", 0, ""), Statement("save", 0, "")>>

StepNames ==
    {"faostat", "faostat_qcl", "un_sdg", "cow_mid", "life_tables", "ai_phds",
     "cigarette_sales", "ert", "statistical_review_of_world_energy"}

RunOf(step) ==
    CASE step = "faostat" -> faostat_run
      [] step = "faostat_qcl" -> faostat_qcl_run
      [] step = "un_sdg" -> un_sdg_run
      [] step = "cow_mid" -> cow_mid_run
      [] step = "life_tables" -> life_tables_run
      [] step = "ai_phds" -> ai_phds_run
      [] step = "cigarette_sales" -> cigarette_sales_run
      [] step = "ert" -> ert_run
      [] step = "statistical_review_of_world_energy" ->
            statistical_review_of_world_energy_run

\* The statements of the run with one of the operations.
StatementsOf(step, ops) == {k \in DOMAIN RunOf(step) : RunOf(step)[k].op \in ops}

\* The number of tables the step writes.
TablesOf(step) == IF step \in {"faostat", "faostat_qcl"} THEN 2 ELSE 1

\* The index keys of the rows of a table.
TableIndexes ==
    UNION {[1..n -> 1..MaxTableRows] : n \in 1..MaxTableRows}

\* What the run of the step reads of the metadata and of the data: the
\* columns of the metadata when it looks one up, the number of their rows when
\* it calls item(), and which of its assertions the data fail.
ColumnsRead(step) ==
    IF StatementsOf(step, {"item", "getitem"}) = {} THEN {{TITLE, DESCRIPTION}}
    ELSE SUBSET {TITLE, DESCRIPTION}

RowsRead(step) ==
    IF StatementsOf(step, {"item"}) = {} THEN {1} ELSE 0..MaxMetadataRows

AssertionsRead(step) == SUBSET StatementsOf(step, {"assert"})

RunInputsOf(step) ==
    {[step |-> step, tables |-> tables, columns |-> columns, rows |-> rows,
      failing |-> failing] :
        tables \in [1..TablesOf(step) -> TableIndexes],
        columns \in ColumnsRead(step),
        rows \in RowsRead(step),
        failing \in AssertionsRead(step)}

InitRuns ==
    /\ pc = "run"
    /\ \E step \in StepNames : input \in RunInputsOf(step)
    /\ output = <<>>
    /\ BpIdle
    /\ ChartsIdle

\* The statement at which the run is, or at which it was aborted.
Current == RunOf(input.step)[Len(output) + 1]

\* set_index(..., verify_integrity=True) raises ValueError when two rows have
\* the same index key.
HasDuplicates(index) == \E i, j \in DOMAIN index : i < j /\ index[i] = index[j]

\* The error that the k-th statement of the run, one that checks, raises, if
\* any: set_index with verify_integrity and pivot a ValueError for a duplicate
\* key of the rows they are given; assert an AssertionError when the data fail
\* it; Series.item() of a column of the metadata a KeyError without the column
\* and a ValueError unless there is exactly one row; dict[key] a KeyError
\* without the key.
CheckError(k) ==
    LET statement == RunOf(input.step)[k]
    IN
    CASE statement.op \in {"set_index", "pivot"} ->
            IF HasDuplicates(input.tables[statement.table])
            THEN Some("ValueError") ELSE None
      [] statement.op = "assert" ->
            IF k \in input.failing THEN Some("AssertionError") ELSE None
      [] statement.op = "item" ->
            IF statement.column \notin input.columns THEN Some("KeyError")
            ELSE IF input.rows # 1 THEN Some("ValueError")
            ELSE None
      [] statement.op = "getitem" ->
            IF statement.column \notin input.columns THEN Some("KeyError") ELSE None

\* The statement has returned: the run goes on with the next one, or ends.
Returned ==
    /\ output' = Append(output, Current)
    /\ pc' = IF Len(output) + 1 = Len(RunOf(input.step)) THEN "done" ELSE "run"
    /\ error' = None

\* The statement has raised: the run is aborted there.
Raised(exception) ==
    /\ pc' = "aborted"
    /\ error' = Some(exception)
    /\ UNCHANGED output

\* A statement that checks the data or reads the metadata.
RunCheck ==
    /\ pc = "run"
    /\ Current.op \in {"set_index", "pivot", "assert", "item", "getitem"}
    /\ LET raised == CheckError(Len(output) + 1)
       IN IF raised = None THEN Returned ELSE Raised(raised[1])
    /\ UNCHANGED <<input, written_rest, dataset, chart_vars>>

\* Dataset.create_empty(dest_dir): the dataset exists at the destination,
\* without tables.
RunCreateEmpty ==
    /\ pc = "run"
    /\ Current.op = "create_empty"
    /\ dataset' = Some([tables |-> <<>>])
    /\ Returned
    /\ UNCHANGED <<input, written_rest, chart_vars>>

\* create_dataset(dest_dir, tables=[...]): the dataset exists at the
\* destination with the tables given.
RunCreateDataset ==
    /\ pc = "run"
    /\ Current.op = "create_dataset"
    /\ dataset' = Some([tables |-> input.tables])
    /\ Returned
    /\ UNCHANGED <<input, written_rest, chart_vars>>

\* Dataset.save(): the metadata of the dataset are written.
RunSave ==
    /\ pc = "run"
    /\ Current.op = "save"
    /\ Returned
    /\ UNCHANGED <<input, written_rest, dataset, chart_vars>>

\* Dataset.add(table): the table is written into the dataset, or the call
\* raises (repacking a table can fail) and the dataset stays without it.
RunAdd ==
    /\ pc = "run"
    /\ Current.op = "add"
    /\ \/ /\ dataset' = Some([tables |-> Append(dataset[1].tables,
                                                  input.tables[Current.table])])
          /\ Returned
       \/ /\ Raised("Exception")
          /\ UNCHANGED dataset
    /\ UNCHANGED <<input, written_rest, chart_vars>>

NextRuns == RunCheck \/ RunCreateEmpty \/ RunCreateDataset \/ RunSave \/ RunAdd

SpecRuns == (InitRegions \/ InitRuns) /\ [][Next \/ NextRuns]_vars

\* The run is the one of the BP step.
IsBpRun == data # Idle

\* The tables that the run writes, in the order in which it adds them.
TablesOfRun == IF IsBpRun THEN <<combined_table>> ELSE input.tables

\* C15 as stated: in every step's run, no dataset exists at the destination
\* after an aborted run, and a dataset exists there only after all its tables
\* were added.
C15_DatasetOnlyAfterAllTables ==
    /\ pc = "aborted" => dataset = None
    /\ dataset # None => dataset[1].tables = TablesOfRun

\* Two rows of the table have the same index key.
DuplicateKey(index) ==
    \E i \in DOMAIN index : \E j \in DOMAIN index \ {i} : index[i] = index[j]

\* The tables of the step whose index is set with verify_integrity.
VerifiedTables(step) ==
    {RunOf(step)[k].table : k \in StatementsOf(step, {"set_index", "pivot"})}

\* C15 amended: in every step's run, a failed assertion or index-integrity
\* check (duplicate index) aborts the run before anything is written: no
\* dataset, empty or partial, exists at the destination after it, and data
\* that fail such a check never get into a dataset.  Missing metadata abort
\* the run before anything is written as well, except those that the run reads
\* after it has created the dataset: the metadata file of the BP step, read
\* into the empty dataset, and the description of the dataset in the FAOSTAT
\* steps, read when the dataset is empty (2022-05-17) or has its tables
\* (faostat_qcl).  The BP, FAOSTAT 2022-05-17 and UN SDG runs create the
\* dataset empty and add its tables afterwards, one at a time: there a dataset
\* exists, empty or with the first of its tables, before all tables were
\* added, and it stays so at the destination when adding a table fails.  A run
\* that ends has written all its tables.
C15_ChecksAbortBeforeAnythingIsWritten ==
    /\ IsBpRun =>
          /\ (pc = "aborted" /\ error \in {Some("ValueError"), Some("KeyError"),
                                            Some("AssertionError")})
                => dataset = None
          /\ (bp_table # None /\ SameIndexTwice(amended))
                => pc = "aborted" /\ error = Some("ValueError")
          /\ (bp_table # None /\ \E column \in DOMAIN amended[1].vals :
                                        Underscore(column) \notin bp_table[1])
                => pc = "aborted"
          /\ (table_old # Idle /\ MatchedTwice)
                => pc = "aborted" /\ error = Some("AssertionError")
          /\ dataset # None =>
                /\ dataset[1].tables = IF pc = "added" THEN <<combined_table>> ELSE <<>>
                /\ pc \in {"created", "described", "saved", "added", "aborted"}
                /\ pc = "aborted" => error \in {Some("FileNotFoundError"), Some("Exception")}
                /\ ~SameIndexTwice(amended) /\ ~MatchedTwice
    /\ ~IsBpRun =>
          /\ (pc = "aborted" /\ Current.op \in {"set_index", "pivot", "assert"})
                => dataset = None
          /\ (pc = "aborted" /\ Current.op \in {"item", "getitem"} /\ dataset # None) =>
                /\ input.step \in {"faostat", "faostat_qcl"}
                /\ Current.column = DESCRIPTION
                /\ error = Some("KeyError")
                /\ dataset[1].tables = IF input.step = "faostat" THEN <<>> ELSE input.tables
          /\ (pc = "aborted" /\ Current.op = "add") =>
                /\ input.step \in {"faostat", "un_sdg"}
                /\ dataset # None
                /\ dataset[1].tables = SubSeq(input.tables, 1, Current.table - 1)
          /\ dataset # None =>
                /\ \A k \in VerifiedTables(input.step) : ~DuplicateKey(input.tables[k])
                /\ input.failing = {}
                /\ \E n \in 0..Len(input.tables) :
                      dataset[1].tables = SubSeq(input.tables, 1, n)
          /\ pc = "done" => dataset # None /\ dataset[1].tables = input.tables

\* C15 witness: the run of the FAOSTAT step was aborted by the index-integrity
\* check of its wide table, whose index has a duplicate key, after the long
\* table had passed its check and the wide table its assertions: no dataset
\* exists.
C15_Witness ==
    /\ ~IsBpRun
    /\ pc = "aborted"
    /\ input.step = "faostat"
    /\ Current = Statement("set_index", 2, "")
    /\ output[Len(output)] = Statement("assert", 2, "")
    /\ error = Some("ValueError")
    /\ dataset = None

==============================================================================
